---- MODULE Spec2Model ----
(***************************************************************************)
(* DayFlow browser client: the React views (Dashboard, Timeline,           *)
(* Settings), the LanguageProvider and the api service, as a state machine *)
(* over a single-threaded event loop.  Every asynchronous function of the  *)
(* source (loadData, loadActivities, handleGenerateSummary, loadSettings,  *)
(* handleSave, loadLanguage) is split at its one `await`: the part before  *)
(* it is a dispatch action, the part after it a completion action.  A      *)
(* request in flight carries the values its closure captured when the      *)
(* handler was invoked (dateString, showLoading, settings, currentLanguage)*)
(* and whether the component instance that issued it is still mounted.     *)
(***************************************************************************)
EXTENDS Naturals, Integers, FiniteSets, Sequences, Bags, TLC

(* ---------------------------------------------------------------------- *)
(* Bounds of the model                                                    *)
(* ---------------------------------------------------------------------- *)
MaxInflight == 2
MaxAnalyzed == 1
MaxSummaryVer == 1
MaxExtra == 1

(* the days the user selects among; the app starts on the current day *)
Dates == {"2024-01-09", "2024-01-10"}
Today == "2024-01-10"
NoDate == ""

(* ---------------------------------------------------------------------- *)
(* Values                                                                 *)
(* ---------------------------------------------------------------------- *)
Language == {"zh", "en", "ja"}
PageType == {"dashboard", "timeline", "settings"}

Null == "null"
NoPrefs == [language |-> "none"]
NoStats == [date |-> NoDate, analyzed_records |-> 0]
NoSummary == [date |-> NoDate, ver |-> 0]
NoActivities == [date |-> NoDate, count |-> 0]
NoResp == [stats |-> NoStats, summary |-> NoSummary, activities |-> NoActivities, prefs |-> NoPrefs]
NoReq == [kind |-> "none", alive |-> FALSE, date |-> NoDate, showLoading |-> FALSE,
          payload |-> NoPrefs, lang |-> "none", status |-> "none", resp |-> NoResp]

Preferences == [language : Language]

VARIABLES
    currentPage,      \* App: useState<PageType>
    selectedDate,     \* App: useState(new Date()), as its dateString
    dashboard,        \* state of the mounted Dashboard instance
    timeline,         \* state of the mounted Timeline instance
    settingsView,     \* state of the mounted Settings instance
    language,         \* LanguageProvider: the active locale
    providerLoading,  \* LanguageProvider: loading
    inflight,         \* requests awaited by some handler
    intervals,        \* active setInterval registrations
    timeouts,         \* pending setTimeout registrations
    persisted,        \* backend: the stored Preferences row
    srvAnalyzed,      \* backend: analyzed records per date
    srvSummary,       \* backend: version of the stored summary per date (0 = none)
    ev,               \* what the last step did
    resolver,         \* a call of the i18n resolver t(lang, key)
    display,          \* Dashboard render: a DailyStats and the figures derived from it
    picker,           \* DatePicker: the client's clock and the Date it handed to App
    transport         \* a call of request(url, options) of the API service

vars == <<currentPage, selectedDate, dashboard, timeline, settingsView, language,
          providerLoading, inflight, intervals, timeouts, persisted, srvAnalyzed,
          srvSummary, ev, resolver, display, picker, transport>>

(* What a step did: its handler, the request it dispatched or resumed   *)
(* from, whether it called the provider's setLanguage, and whether it   *)
(* called state setters of a component instance that is unmounted.      *)
Ev(op, req, setLang, unmounted) ==
    [op |-> op, req |-> req, setLanguage |-> setLang, unmounted |-> unmounted]

(* ---------------------------------------------------------------------- *)
(* Component state on mount                                                *)
(* ---------------------------------------------------------------------- *)
DashboardState ==
    [stats |-> NoStats, summary |-> NoSummary, loading |-> TRUE,
     generating |-> FALSE, error |-> Null]

TimelineState ==
    [activities |-> NoActivities, loading |-> TRUE, error |-> Null]

(* origin records which statement last wrote `settings`: the useState      *)
(* initial value ("default"), setSettings(data) in loadSettings ("loaded") *)
(* or a language button ("user")                                           *)
SettingsState ==
    [settings |-> [language |-> "en"], origin |-> "default",
     loading |-> TRUE, saving |-> FALSE, isSaved |-> FALSE, error |-> Null]

DefaultLanguage == "zh"

(* ---------------------------------------------------------------------- *)
(* Requests                                                                *)
(* ---------------------------------------------------------------------- *)
OwnerOf(kind) ==
    CASE kind \in {"loadData", "handleGenerateSummary"} -> "dashboard"
      [] kind = "loadActivities" -> "timeline"
      [] kind \in {"loadSettings", "handleSave"} -> "settings"
      [] OTHER -> "provider"

Req(kind, date, showLoading, payload, lang) ==
    [kind |-> kind, alive |-> TRUE, date |-> date,
     showLoading |-> showLoading, payload |-> payload, lang |-> lang,
     status |-> "sent", resp |-> NoResp]

(* faulty variant: the effect does not depend on dateString, its callback  *)
(* keeps the date of the first render                                      *)
Interval_stale(view, date) == [view |-> view, date |-> Today, alive |-> TRUE]

(* setInterval(() => loadData(false), 30000) registered by the effect of   *)
(* the render with dateString = date                                       *)
Interval(view, date) == [view |-> view, date |-> date, alive |-> TRUE]

(* Unmounting a component: the closures of its instance stay referenced by *)
(* the pending promises and timers, but the instance is gone.              *)
Orphan(set, view) ==
    {IF x.view = view THEN [x EXCEPT !.alive = FALSE] ELSE x : x \in set}

OrphanReq(r, view) ==
    IF OwnerOf(r.kind) = view THEN [r EXCEPT !.alive = FALSE] ELSE r

OrphanReqs(reqs, view) ==
    LET S == BagToSet(reqs)
    IN  [t \in {OrphanReq(r, view) : r \in S} |->
            BagCardinality([r \in {q \in S : OrphanReq(q, view) = t} |-> reqs[r]])]

(* the bound on the requests in flight at one time *)
CanDispatch == BagCardinality(inflight) < MaxInflight

Add(reqs, r) == reqs (+) SetToBag({r})
Remove(reqs, r) == reqs (-) SetToBag({r})

(* faulty variant: the catch block re-issues the failed request *)
Settled_retry(reqs, r) ==
    IF r.status = "fail" THEN Add(Remove(reqs, r), [r EXCEPT !.status = "sent"])
    ELSE Remove(reqs, r)

(* the awaited promise of r settles and its handler runs to its end: the   *)
(* catch and finally blocks start no request                               *)
Settled(reqs, r) == Remove(reqs, r)

(* ---------------------------------------------------------------------- *)
(* Dashboard                                                               *)
(* ---------------------------------------------------------------------- *)
(* faulty variant: the loading flag is raised whatever showLoading is *)
loadDataStart_always(d, showLoading) ==
    [d EXCEPT !.loading = TRUE, !.error = Null]

(* loadData up to its await *)
loadDataStart(d, showLoading) ==
    [d EXCEPT !.loading = IF showLoading THEN TRUE ELSE @, !.error = Null]

(* faulty variant: no finally block, a rejection never releases loading *)
loadDataDone_nofinally(d, r) ==
    IF r.status = "ok"
    THEN [d EXCEPT !.stats = r.resp.stats, !.summary = r.resp.summary,
                   !.loading = IF r.showLoading THEN FALSE ELSE @]
    ELSE [d EXCEPT !.error = "dashboard.loadFailed"]

(* faulty variant: every part that arrived is applied, as with             *)
(* Promise.allSettled                                                      *)
loadDataDone_settled(d, r) ==
    LET d1 == [d EXCEPT !.stats = IF r.resp.stats # NoStats THEN r.resp.stats ELSE @,
                        !.summary = IF r.resp.summary # NoSummary THEN r.resp.summary ELSE @,
                        !.error = IF r.status = "ok" THEN @ ELSE "dashboard.loadFailed"]
    IN  [d1 EXCEPT !.loading = IF r.showLoading THEN FALSE ELSE @]

(* loadData after its await: try / catch / finally *)
loadDataDone(d, r) ==
    LET d1 == IF r.status = "ok"
              THEN [d EXCEPT !.stats = r.resp.stats, !.summary = r.resp.summary]
              ELSE [d EXCEPT !.error = "dashboard.loadFailed"]
    IN  [d1 EXCEPT !.loading = IF r.showLoading THEN FALSE ELSE @]

(* handleGenerateSummary up to its await *)
handleGenerateSummaryStart(d) ==
    [d EXCEPT !.generating = TRUE, !.error = Null]

(* faulty variant: no catch block, the rejection leaves no trace in the view *)
handleGenerateSummaryDone_uncaught(d, r) ==
    [d EXCEPT !.summary = IF r.status = "ok" THEN r.resp.summary ELSE @,
              !.generating = FALSE]

(* faulty variant: no finally block, a rejection leaves generating on *)
handleGenerateSummaryDone_nofinally(d, r) ==
    IF r.status = "ok"
    THEN [d EXCEPT !.summary = r.resp.summary, !.generating = FALSE]
    ELSE [d EXCEPT !.error = "generate.failed"]

(* handleGenerateSummary after its await *)
handleGenerateSummaryDone(d, r) ==
    LET d1 == IF r.status = "ok"
              THEN [d EXCEPT !.summary = r.resp.summary]
              ELSE [d EXCEPT !.error = "generate.failed"]
    IN  [d1 EXCEPT !.generating = FALSE]

(* the early returns of render: which panel the Dashboard shows *)
DashboardPanel(d) ==
    IF d.loading THEN "loading" ELSE IF d.error # Null THEN "error" ELSE "data"

(* faulty variant: the overlay is rendered before the early returns *)
OverlayShown_flag(d) == d.generating

(* {generating && <overlay/>}, in the return that follows the loading and *)
(* error early returns                                                    *)
OverlayShown(d) == DashboardPanel(d) = "data" /\ d.generating

(* disabled={generating || (stats?.analyzed_records || 0) === 0} *)
GenerateDisabled(d) ==
    d.generating \/ d.stats.analyzed_records = 0

(* faulty variant: the effect returns no cleanup *)
clearInterval_none(tms, view) == tms

(* clearInterval(interval) in the effect's cleanup *)
clearInterval(tms, view) ==
    {tm \in tms : ~(tm.view = view /\ tm.alive)}

(* ---------------------------------------------------------------------- *)
(* Timeline                                                                *)
(* ---------------------------------------------------------------------- *)
loadActivitiesStart(t, showLoading) ==
    [t EXCEPT !.loading = IF showLoading THEN TRUE ELSE @, !.error = Null]

loadActivitiesDone(t, r) ==
    LET t1 == IF r.status = "ok"
              THEN [t EXCEPT !.activities = r.resp.activities]
              ELSE [t EXCEPT !.error = "timeline.loadFailed"]
    IN  [t1 EXCEPT !.loading = IF r.showLoading THEN FALSE ELSE @]

TimelinePanel(t) ==
    IF t.loading THEN "loading" ELSE IF t.error # Null THEN "error" ELSE "data"

(* the loading flag and the error of the data view shown on page p *)
ViewLoading(p, d, t) == IF p = "dashboard" THEN d.loading ELSE t.loading

ViewError(p, d, t) == IF p = "dashboard" THEN d.error ELSE t.error

(* ---------------------------------------------------------------------- *)
(* Settings                                                                *)
(* ---------------------------------------------------------------------- *)
loadSettingsStart(s) ==
    [s EXCEPT !.loading = TRUE, !.error = Null]

(* faulty variant: no finally block, a rejection leaves the view loading *)
loadSettingsDone_stuck(s, r) ==
    IF r.status = "ok"
    THEN [s EXCEPT !.settings = r.resp.prefs, !.origin = "loaded", !.loading = FALSE]
    ELSE [s EXCEPT !.error = "settings.loadFailed"]

loadSettingsDone(s, r) ==
    LET s1 == IF r.status = "ok"
              THEN [s EXCEPT !.settings = r.resp.prefs, !.origin = "loaded"]
              ELSE [s EXCEPT !.error = "settings.loadFailed"]
    IN  [s1 EXCEPT !.loading = FALSE]

(* faulty variant: the saving flag is not raised *)
handleSaveStart_quiet(s) ==
    [s EXCEPT !.error = Null, !.isSaved = FALSE]

(* handleSave up to its await: setSaving(true); setError(null);            *)
(* setIsSaved(false)                                                       *)
handleSaveStart(s) ==
    [s EXCEPT !.saving = TRUE, !.error = Null, !.isSaved = FALSE]

handleSaveDone(s, r) ==
    LET s1 == IF r.status = "ok"
              THEN [s EXCEPT !.isSaved = TRUE]
              ELSE [s EXCEPT !.error = "settings.saveFailed"]
    IN  [s1 EXCEPT !.saving = FALSE]

(* faulty variant: the locale is read from the form as it is when the     *)
(* response arrives                                                       *)
SavedLanguage_form(r) == settingsView.settings.language

(* `settings` inside handleSave is the value the handler closed over when *)
(* it was invoked, the same object that was sent as the request body.     *)
SavedLanguage(r) == r.payload.language

(* faulty variant: the locale is switched whatever the outcome of the save *)
CallsSetGlobalLanguage_optimistic(r) ==
    /\ r.payload.language \in Language
    /\ r.payload.language # r.lang

(* if (settings.language && settings.language !== currentLanguage), in    *)
(* the try block after the await; currentLanguage is the closed-over value *)
CallsSetGlobalLanguage(r) ==
    /\ r.status = "ok"
    /\ SavedLanguage(r) \in Language
    /\ SavedLanguage(r) # r.lang

(* ---------------------------------------------------------------------- *)
(* LanguageProvider                                                        *)
(* ---------------------------------------------------------------------- *)
(* faulty variant: the response is ignored *)
loadLanguageDone_default(r) == DefaultLanguage

(* setLanguage(settings.language || 'zh') / catch: setLanguage('zh') *)
loadLanguageDone(r) ==
    IF r.status = "ok" /\ r.resp.prefs.language \in Language
    THEN r.resp.prefs.language
    ELSE DefaultLanguage

(* ---------------------------------------------------------------------- *)
(* Backend (external collaborator, section 6 of the contract)             *)
(* ---------------------------------------------------------------------- *)
Merge(stored, body) ==
    [language |-> IF body.language \in Language THEN body.language ELSE stored.language]

Response(r) ==
    CASE r.kind = "loadData" ->
            [NoResp EXCEPT !.stats = [date |-> r.date, analyzed_records |-> srvAnalyzed[r.date]],
                           !.summary = [date |-> r.date, ver |-> srvSummary[r.date]]]
      [] r.kind = "loadActivities" ->
            [NoResp EXCEPT !.activities = [date |-> r.date, count |-> srvAnalyzed[r.date]]]
      [] r.kind = "handleGenerateSummary" ->
            [NoResp EXCEPT !.summary = [date |-> r.date, ver |-> srvSummary[r.date] + 1]]
      [] r.kind = "handleSave" ->
            [NoResp EXCEPT !.prefs = Merge(persisted, r.payload)]
      [] OTHER ->
            [NoResp EXCEPT !.prefs = persisted]

(* ---------------------------------------------------------------------- *)
(* i18n: JavaScript values, the locale dictionaries and the resolver t    *)
(* ---------------------------------------------------------------------- *)
(* A dotted key is kept as the sequence key.split('.') of its segments;   *)
(* split and join('.') are inverse on non-empty sequences of dot-free     *)
(* segments.  A dictionary text is kept as its length.                    *)
Undefined == [type |-> "undefined"]
Fn == [type |-> "function"]
Num == [type |-> "number"]
Str(n) == [type |-> "string", length |-> n]
Obj(p) == [type |-> "object", props |-> p]

(* the translations module of the old-version client; a text is kept as its length *)
translations_zh ==
    Obj([appTitle |-> Str(16),
         nav |-> Obj([dashboard |-> Str(5), timeline |-> Str(6), settings |-> Str(5)]),
         dashboard |-> Obj([title |-> Str(6), selectDate |-> Str(5), totalRecords |-> Str(4),
             analyzedRecords |-> Str(3), workHours |-> Str(4),
             categoryDistribution |-> Str(9), dailyLog |-> Str(9),
             generateSummary |-> Str(7), generating |-> Str(6),
             noSummary |-> Str(9), clickToGenerate |-> Str(18),
             noAnalyzed |-> Str(16), generatedAt |-> Str(5), loading |-> Str(6),
             loadFailed |-> Str(19), retry |-> Str(2),
             generatingSummary |-> Str(9), mayTakeTime |-> Str(11),
             categories |-> Obj([coding |-> Str(5), writing |-> Str(5), meeting |-> Str(5),
                 browsing |-> Str(5), communication |-> Str(5),
                 entertainment |-> Str(5), design |-> Str(5),
                 data_analysis |-> Str(7), other |-> Str(5)])]),
         timeline |-> Obj([title |-> Str(5), selectDate |-> Str(5), totalRecords |-> Str(1),
             recordsUnit |-> Str(3), noActivities |-> Str(9),
             systemMonitoring |-> Str(15), loading |-> Str(6),
             loadFailed |-> Str(8), retry |-> Str(2), confidence |-> Str(4)]),
         settings |-> Obj([title |-> Str(5), subtitle |-> Str(21), language |-> Str(10),
             languageOptions |-> Obj([en |-> Str(7), zh |-> Str(12), ja |-> Str(14)]),
             languageHint |-> Str(18), model |-> Str(12),
             modelOptions |-> Obj("gpt-5-mini" :> Str(15) @@ "gpt-5" :> Str(5)),
             modelHint |-> Str(21), saveButton |-> Str(7), saving |-> Str(6),
             saveSuccess |-> Str(9), saveFailed |-> Str(8),
             loadFailed |-> Str(6), loading |-> Str(6), note |-> Str(2),
             noteText |-> Str(25)]),
         common |-> Obj([hours |-> Str(2), minutes |-> Str(2), times |-> Str(1)])])

translations_en ==
    Obj([appTitle |-> Str(16),
         nav |-> Obj([dashboard |-> Str(12), timeline |-> Str(11), settings |-> Str(11)]),
         dashboard |-> Obj([title |-> Str(21), selectDate |-> Str(12), totalRecords |-> Str(13),
             analyzedRecords |-> Str(8), workHours |-> Str(10),
             categoryDistribution |-> Str(29), dailyLog |-> Str(17),
             generateSummary |-> Str(19), generating |-> Str(13),
             noSummary |-> Str(14), clickToGenerate |-> Str(52),
             noAnalyzed |-> Str(52), generatedAt |-> Str(13),
             loading |-> Str(10), loadFailed |-> Str(63), retry |-> Str(5),
             generatingSummary |-> Str(21), mayTakeTime |-> Str(27),
             categories |-> Obj([coding |-> Str(9), writing |-> Str(10), meeting |-> Str(10),
                 browsing |-> Str(11), communication |-> Str(16),
                 entertainment |-> Str(16), design |-> Str(9),
                 data_analysis |-> Str(16), other |-> Str(8)])]),
         timeline |-> Obj([title |-> Str(17), selectDate |-> Str(12), totalRecords |-> Str(0),
             recordsUnit |-> Str(8), noActivities |-> Str(22),
             systemMonitoring |-> Str(42), loading |-> Str(10),
             loadFailed |-> Str(27), retry |-> Str(5), confidence |-> Str(11)]),
         settings |-> Obj([title |-> Str(11), subtitle |-> Str(35), language |-> Str(21),
             languageOptions |-> Obj([en |-> Str(7), zh |-> Str(12), ja |-> Str(14)]),
             languageHint |-> Str(65), model |-> Str(15),
             modelOptions |-> Obj("gpt-5-mini" :> Str(24) @@ "gpt-5" :> Str(5)),
             modelHint |-> Str(51), saveButton |-> Str(16), saving |-> Str(9),
             saveSuccess |-> Str(30), saveFailed |-> Str(25),
             loadFailed |-> Str(23), loading |-> Str(10), note |-> Str(2),
             noteText |-> Str(89)]),
         common |-> Obj([hours |-> Str(5), minutes |-> Str(3), times |-> Str(5)])])

(* faulty variant: a Japanese dictionary without the common units *)
translations_ja_short ==
    Obj([appTitle |-> Str(16),
         nav |-> Obj([dashboard |-> Str(9), timeline |-> Str(9), settings |-> Str(5)])])

translations_ja ==
    Obj([appTitle |-> Str(16),
         nav |-> Obj([dashboard |-> Str(10), timeline |-> Str(9), settings |-> Str(5)]),
         dashboard |-> Obj([title |-> Str(7), selectDate |-> Str(6), totalRecords |-> Str(4),
             analyzedRecords |-> Str(4), workHours |-> Str(4),
             categoryDistribution |-> Str(12), dailyLog |-> Str(10),
             generateSummary |-> Str(9), generating |-> Str(6),
             noSummary |-> Str(9), clickToGenerate |-> Str(25),
             noAnalyzed |-> Str(29), generatedAt |-> Str(5), loading |-> Str(8),
             loadFailed |-> Str(46), retry |-> Str(3),
             generatingSummary |-> Str(10), mayTakeTime |-> Str(20),
             categories |-> Obj([coding |-> Str(9), writing |-> Str(5), meeting |-> Str(5),
                 browsing |-> Str(9), communication |-> Str(12),
                 entertainment |-> Str(12), design |-> Str(7),
                 data_analysis |-> Str(8), other |-> Str(6)])]),
         timeline |-> Obj([title |-> Str(8), selectDate |-> Str(6), totalRecords |-> Str(2),
             recordsUnit |-> Str(4), noActivities |-> Str(9),
             systemMonitoring |-> Str(25), loading |-> Str(8),
             loadFailed |-> Str(16), retry |-> Str(3), confidence |-> Str(4)]),
         settings |-> Obj([title |-> Str(5), subtitle |-> Str(20), language |-> Str(10),
             languageOptions |-> Obj([en |-> Str(7), zh |-> Str(12), ja |-> Str(14)]),
             languageHint |-> Str(24), model |-> Str(13),
             modelOptions |-> Obj("gpt-5-mini" :> Str(15) @@ "gpt-5" :> Str(5)),
             modelHint |-> Str(31), saveButton |-> Str(8), saving |-> Str(6),
             saveSuccess |-> Str(16), saveFailed |-> Str(14),
             loadFailed |-> Str(14), loading |-> Str(8), note |-> Str(2),
             noteText |-> Str(37)]),
         common |-> Obj([hours |-> Str(2), minutes |-> Str(1), times |-> Str(1)])])

translations == [zh |-> translations_zh, en |-> translations_en, ja |-> translations_ja]

(* the TypeScript translations module; a text is kept as its length *)
translationsTs_zh ==
    Obj([appTitle |-> Str(16),
         nav |-> Obj([dashboard |-> Str(5), timeline |-> Str(6), settings |-> Str(5)]),
         dashboard |-> Obj([title |-> Str(6), selectDate |-> Str(5), totalRecords |-> Str(4),
             analyzedRecords |-> Str(3), workHours |-> Str(4),
             categoryDistribution |-> Str(9), dailyLog |-> Str(9),
             generateSummary |-> Str(7), generating |-> Str(6),
             noSummary |-> Str(9), clickToGenerate |-> Str(18),
             noAnalyzed |-> Str(16), generatedAt |-> Str(5), loading |-> Str(6),
             loadFailed |-> Str(19), retry |-> Str(2),
             generatingSummary |-> Str(9), mayTakeTime |-> Str(11),
             categories |-> Obj([coding |-> Str(5), writing |-> Str(5), meeting |-> Str(5),
                 browsing |-> Str(5), communication |-> Str(5),
                 entertainment |-> Str(5), design |-> Str(5),
                 data_analysis |-> Str(7), other |-> Str(5)])]),
         timeline |-> Obj([title |-> Str(5), selectDate |-> Str(5), totalRecords |-> Str(1),
             recordsUnit |-> Str(3), noActivities |-> Str(9),
             systemMonitoring |-> Str(15), loading |-> Str(6),
             loadFailed |-> Str(8), retry |-> Str(2), confidence |-> Str(4)]),
         settings |-> Obj([title |-> Str(5), subtitle |-> Str(21), language |-> Str(10),
             languageOptions |-> Obj([en |-> Str(7), zh |-> Str(12), ja |-> Str(14)]),
             languageHint |-> Str(18), model |-> Str(12),
             modelOptions |-> Obj("gpt-5-mini" :> Str(15) @@ "gpt-5" :> Str(5)),
             modelHint |-> Str(21), saveButton |-> Str(7), saving |-> Str(6),
             saveSuccess |-> Str(9), saveFailed |-> Str(8),
             loadFailed |-> Str(6), loading |-> Str(6), note |-> Str(2),
             noteText |-> Str(25)]),
         common |-> Obj([hours |-> Str(2), minutes |-> Str(2), times |-> Str(1)])])

translationsTs_en ==
    Obj([appTitle |-> Str(16),
         nav |-> Obj([dashboard |-> Str(12), timeline |-> Str(11), settings |-> Str(11)]),
         dashboard |-> Obj([title |-> Str(21), selectDate |-> Str(12), totalRecords |-> Str(13),
             analyzedRecords |-> Str(8), workHours |-> Str(10),
             categoryDistribution |-> Str(29), dailyLog |-> Str(17),
             generateSummary |-> Str(19), generating |-> Str(13),
             noSummary |-> Str(14), clickToGenerate |-> Str(52),
             noAnalyzed |-> Str(52), generatedAt |-> Str(13),
             loading |-> Str(10), loadFailed |-> Str(63), retry |-> Str(5),
             generatingSummary |-> Str(21), mayTakeTime |-> Str(27),
             categories |-> Obj([coding |-> Str(9), writing |-> Str(10), meeting |-> Str(10),
                 browsing |-> Str(11), communication |-> Str(16),
                 entertainment |-> Str(16), design |-> Str(9),
                 data_analysis |-> Str(16), other |-> Str(8)])]),
         timeline |-> Obj([title |-> Str(17), selectDate |-> Str(12), totalRecords |-> Str(0),
             recordsUnit |-> Str(8), noActivities |-> Str(22),
             systemMonitoring |-> Str(42), loading |-> Str(10),
             loadFailed |-> Str(27), retry |-> Str(5), confidence |-> Str(11)]),
         settings |-> Obj([title |-> Str(11), subtitle |-> Str(35), language |-> Str(21),
             languageOptions |-> Obj([en |-> Str(7), zh |-> Str(12), ja |-> Str(14)]),
             languageHint |-> Str(65), model |-> Str(15),
             modelOptions |-> Obj("gpt-5-mini" :> Str(24) @@ "gpt-5" :> Str(5)),
             modelHint |-> Str(51), saveButton |-> Str(16), saving |-> Str(9),
             saveSuccess |-> Str(30), saveFailed |-> Str(25),
             loadFailed |-> Str(23), loading |-> Str(10), note |-> Str(2),
             noteText |-> Str(89)]),
         common |-> Obj([hours |-> Str(5), minutes |-> Str(3), times |-> Str(5)])])

translationsTs_ja ==
    Obj([appTitle |-> Str(16),
         nav |-> Obj([dashboard |-> Str(10), timeline |-> Str(9), settings |-> Str(5)]),
         dashboard |-> Obj([title |-> Str(7), selectDate |-> Str(6), totalRecords |-> Str(4),
             analyzedRecords |-> Str(4), workHours |-> Str(4),
             categoryDistribution |-> Str(12), dailyLog |-> Str(10),
             generateSummary |-> Str(9), generating |-> Str(6),
             noSummary |-> Str(9), clickToGenerate |-> Str(25),
             noAnalyzed |-> Str(29), generatedAt |-> Str(5), loading |-> Str(8),
             loadFailed |-> Str(46), retry |-> Str(3),
             generatingSummary |-> Str(10), mayTakeTime |-> Str(20),
             categories |-> Obj([coding |-> Str(9), writing |-> Str(5), meeting |-> Str(5),
                 browsing |-> Str(9), communication |-> Str(12),
                 entertainment |-> Str(12), design |-> Str(7),
                 data_analysis |-> Str(8), other |-> Str(6)])]),
         timeline |-> Obj([title |-> Str(8), selectDate |-> Str(6), totalRecords |-> Str(2),
             recordsUnit |-> Str(4), noActivities |-> Str(9),
             systemMonitoring |-> Str(25), loading |-> Str(8),
             loadFailed |-> Str(16), retry |-> Str(3), confidence |-> Str(4)]),
         settings |-> Obj([title |-> Str(5), subtitle |-> Str(20), language |-> Str(10),
             languageOptions |-> Obj([en |-> Str(7), zh |-> Str(12), ja |-> Str(14)]),
             languageHint |-> Str(24), model |-> Str(13),
             modelOptions |-> Obj("gpt-5-mini" :> Str(15) @@ "gpt-5" :> Str(5)),
             modelHint |-> Str(31), saveButton |-> Str(8), saving |-> Str(6),
             saveSuccess |-> Str(16), saveFailed |-> Str(14),
             loadFailed |-> Str(14), loading |-> Str(8), note |-> Str(2),
             noteText |-> Str(37)]),
         common |-> Obj([hours |-> Str(2), minutes |-> Str(1), times |-> Str(1)])])

translationsTs == [zh |-> translationsTs_zh, en |-> translationsTs_en, ja |-> translationsTs_ja]

(* locale codes handed to t: the supported ones and one that is not *)
Locales == Language \cup {"fr"}

(* property names every object, string, number and function inherits *)
Inherited == {"constructor", "toString", "valueOf", "hasOwnProperty"}

(* value[k]: own property, else the prototype chain, else undefined *)
Get(value, k) ==
    CASE value.type = "object" ->
            IF k \in DOMAIN value.props THEN value.props[k]
            ELSE IF k \in Inherited THEN Fn ELSE Undefined
      [] value.type = "string" ->
            IF k = "length" THEN Num
            ELSE IF k \in Inherited THEN Fn ELSE Undefined
      [] value.type = "function" ->
            IF k = "length" THEN Num
            ELSE IF k \in Inherited THEN Fn ELSE Undefined
      [] OTHER ->
            IF k \in Inherited THEN Fn ELSE Undefined

(* the dotted leaf key paths of a dictionary object *)
RECURSIVE LeafPaths(_)
LeafPaths(obj) ==
    UNION {IF obj.props[k].type = "object"
           THEN {<<k>> \o p : p \in LeafPaths(obj.props[k])}
           ELSE {<<k>>} : k \in DOMAIN obj.props}

(* the key paths of a dictionary object that end on a nested object *)
RECURSIVE NodePaths(_)
NodePaths(obj) ==
    UNION {IF obj.props[k].type = "object"
           THEN {<<k>>} \cup {<<k>> \o p : p \in NodePaths(obj.props[k])}
           ELSE {} : k \in DOMAIN obj.props}

(* a dictionary object with the leaf at path deleted *)
RECURSIVE Without(_, _)
Without(obj, path) ==
    LET k == Head(path)
        rest == Tail(path)
    IN  IF k \notin DOMAIN obj.props THEN obj
        ELSE IF rest = <<>>
        THEN Obj([j \in DOMAIN obj.props \ {k} |-> obj.props[j]])
        ELSE Obj([j \in DOMAIN obj.props |->
                     IF j = k THEN Without(obj.props[j], rest) ELSE obj.props[j]])

(* the leaf removed from one locale to exercise the miss policy *)
NothingRemoved == [lang |-> "none", path |-> <<>>]
RemovableLeaf == <<"nav", "settings">>
Removals == {NothingRemoved} \cup {[lang |-> l, path |-> RemovableLeaf] : l \in Language}

(* the translations module as loaded, with the removal applied *)
Loaded(removed) ==
    [l \in Language |->
        IF l = removed.lang THEN Without(translations[l], removed.path) ELSE translations[l]]

(* segments that no dictionary defines *)
ExtraSegments == {"missing", "length", "constructor"}

RECURSIVE ExtraSuffixes(_)
ExtraSuffixes(n) ==
    IF n = 0 THEN {<<>>}
    ELSE LET shorter == ExtraSuffixes(n - 1)
         IN  shorter \cup {<<e>> \o s : e \in ExtraSegments, s \in shorter}

(* the keys handed to t: every leaf key, every key of a nested object,    *)
(* and each of those (and the empty path) followed by up to MaxExtra      *)
(* segments no dictionary defines                                          *)
DictionaryPaths ==
    UNION {LeafPaths(translations[l]) \cup NodePaths(translations[l]) : l \in Language}

Keys ==
    {p \o s : p \in DictionaryPaths \cup {<<>>}, s \in ExtraSuffixes(MaxExtra)} \ {<<>>}

(* a call of t before its first statement *)
Call(lang, key, removed) ==
    [lang |-> lang, key |-> key, removed |-> removed, pc |-> "call", i |-> 1,
     value |-> Undefined, src |-> "none", ret |-> "none"]

NoCall == [Call("none", <<>>, NothingRemoved) EXCEPT !.pc = "none"]

(* faulty variant: every locale is resolved in the English dictionary *)
RootLocale_en(dict, lang) == "en"

(* translations[lang] || translations['en']: the locale whose dictionary  *)
(* the walk starts in                                                      *)
RootLocale(dict, lang) == IF lang \in DOMAIN dict THEN lang ELSE "en"

(* ---------------------------------------------------------------------- *)
(* Dashboard render: the figures derived from a DailyStats                 *)
(* ---------------------------------------------------------------------- *)
MaxWorkHours == 7
MaxRecords == 10
MaxCount == 6

Categories == {"coding", "meeting", "other"}

(* work_hours is a number of hours; it is kept in thousandths of an hour   *)
WorkHours == 0..(MaxWorkHours * 1000)

(* Math.round of the non-negative quotient a / b: the nearest integer,     *)
(* a tie goes up                                                           *)
MathRound(a, b) == (2 * a + b) \div (2 * b)

(* const hours = Math.floor(stats?.work_hours || 0);                       *)
(* const minutes = Math.round(((stats?.work_hours || 0) - hours) * 60);    *)
workHoursDisplay(work_hours) ==
    LET hours == work_hours \div 1000
    IN  [hours |-> hours, minutes |-> MathRound((work_hours - hours * 1000) * 60, 1000)]

(* faulty variant: the digits after the first decimal are cut off *)
toFixed_cut(count, analyzed_records) == (count * 1000) \div analyzed_records

(* (count / stats.analyzed_records * 100).toFixed(1), in tenths of a       *)
(* percent                                                                 *)
toFixed(count, analyzed_records) == MathRound(count * 1000, analyzed_records)

(* Object.entries(stats.category_distribution).map(...): one ActivityBar   *)
(* per category, none when the distribution has no key                     *)
ActivityBars(stats) ==
    [c \in DOMAIN stats.category_distribution |->
        toFixed(stats.category_distribution[c], stats.analyzed_records)]

NoBars == [c \in {} |-> 0]

Distributions == UNION {[S -> 0..MaxCount] : S \in SUBSET Categories}

RECURSIVE Sum(_, _)
Sum(f, S) ==
    IF S = {} THEN 0
    ELSE LET c == CHOOSE x \in S : TRUE IN f[c] + Sum(f, S \ {c})

Total(f) == Sum(f, DOMAIN f)

(* DailyStats of the getStats scenario: 6 coding and 4 meeting of 10 *)
ScenarioDistribution == [c \in {"coding", "meeting"} |-> IF c = "coding" THEN 6 ELSE 4]

(* the DailyStats the Dashboard is given: any work_hours with the scenario *)
(* distribution, or any distribution whose counts sum to at most           *)
(* analyzed_records with the scenario's work_hours                         *)
DailyStats ==
    {[work_hours |-> wh, analyzed_records |-> 10,
      category_distribution |-> ScenarioDistribution] : wh \in WorkHours}
    \cup
    {st \in [work_hours : {6500}, analyzed_records : 1..MaxRecords,
             category_distribution : Distributions] :
        Total(st.category_distribution) <= st.analyzed_records}

Shown(stats) ==
    [stats |-> stats, rendered |-> FALSE, workHours |-> [hours |-> 0, minutes |-> 0],
     percentage |-> NoBars]

NoStatsShown ==
    Shown([work_hours |-> 0, analyzed_records |-> 0, category_distribution |-> NoBars])

(* ---------------------------------------------------------------------- *)
(* DatePicker and the date string of the data views                        *)
(* ---------------------------------------------------------------------- *)
MaxDay == 3

(* the client's timezone, in hours east of UTC *)
Offsets == {-5, 0, 8}

(* instants are hours since the epoch; days are counted from the epoch     *)
Clock == 24..(MaxDay * 24 + 23)

(* the calendar day of instant t on a clock off hours east of UTC          *)
(* (getDate, toLocaleDateString, toDateString)                             *)
LocalDay(t, off) == (t + off) \div 24

(* new Date(value + 'T00:00:00'): midnight of that day on the local clock  *)
LocalMidnight(day, off) == day * 24 - off

(* date.toISOString().split('T')[0]: the calendar day of t in UTC          *)
toISODate(t) == t \div 24

Picked(off, now, date, day, op) ==
    [offset |-> off, now |-> now, selectedDate |-> date, picked |-> day, op |-> op]

NoPicker == Picked(0, 0, 0, 0, "none")

(* ---------------------------------------------------------------------- *)
(* API service: request(url, options)                                      *)
(* ---------------------------------------------------------------------- *)
(* the calls of the api object that go through request *)
ApiCalls == {"healthCheck", "getActivities", "getSummary", "generateSummary",
             "getStats", "getSettings", "updateSettings"}

(* what fetch settles with: a network error, or a response with a status  *)
NetworkError == 0
Statuses == {200, 201, 204, 301, 400, 404, 422, 500, 503}

(* the body of a response: a JSON text, a JSON text cut off in transit, or *)
(* no content                                                              *)
Bodies == {"json", "truncated", "empty"}

(* faulty variant: the status of the response is never looked at *)
ResponseOk_any(status) == TRUE

(* response.ok: the status is in the range 200-299 *)
ResponseOk(status) == status >= 200 /\ status <= 299

(* response.json(): the parsed value of a JSON text, a SyntaxError for any *)
(* other body                                                              *)
ResponseJson(body) ==
    IF body = "json" THEN [threw |-> FALSE, value |-> "parsed"]
    ELSE [threw |-> TRUE, value |-> "SyntaxError"]

(* a call of request before its first statement *)
Requested(call, outcome, body) ==
    [call |-> call, outcome |-> outcome, body |-> body, pc |-> "fetch",
     logged |-> 0, settled |-> 0, result |-> "pending", value |-> "none"]

NoRequest == [Requested("none", NetworkError, "empty") EXCEPT !.pc = "none"]

(* ---------------------------------------------------------------------- *)
(* Initial state: App mounted on the dashboard page, effects run          *)
(* ---------------------------------------------------------------------- *)
Init ==
    /\ currentPage = "dashboard"
    /\ selectedDate = Today
    /\ dashboard = loadDataStart(DashboardState, TRUE)
    /\ timeline = TimelineState
    /\ settingsView = SettingsState
    /\ language = DefaultLanguage
    /\ providerLoading = TRUE
    /\ inflight = SetToBag({Req("loadLanguage", NoDate, FALSE, NoPrefs, "none"),
                             Req("loadData", Today, TRUE, NoPrefs, "none")})
    /\ intervals = {Interval("dashboard", Today)}
    /\ timeouts = {}
    /\ persisted \in Preferences
    /\ srvAnalyzed = [d \in Dates |-> 0]
    /\ srvSummary = [d \in Dates |-> 0]
    /\ ev = Ev("init", NoReq, FALSE, FALSE)
    /\ resolver = NoCall
    /\ display = NoStatsShown
    /\ picker = NoPicker
    /\ transport = NoRequest

(* ---------------------------------------------------------------------- *)
(* App: navigation and date selection                                      *)
(* ---------------------------------------------------------------------- *)
(* the request the mount effect of page p awaits *)
MountReq(p) ==
    CASE p = "dashboard" -> Req("loadData", selectedDate, TRUE, NoPrefs, "none")
      [] p = "timeline" -> Req("loadActivities", selectedDate, TRUE, NoPrefs, "none")
      [] OTHER -> Req("loadSettings", NoDate, FALSE, NoPrefs, "none")

(* onPageChange(p) -> setCurrentPage(p): renderPage unmounts the current   *)
(* view (effect cleanup) and mounts a fresh instance of the new one, whose *)
(* effect runs.                                                            *)
Navigate(p) ==
    /\ p # currentPage
    /\ CanDispatch
    /\ LET old == currentPage
           reqs == OrphanReqs(inflight, old)
           tms == Orphan(clearInterval(intervals, old), old)
           req == MountReq(p)
       IN  /\ currentPage' = p
           /\ inflight' = Add(reqs, req)
           /\ intervals' = IF p \in {"dashboard", "timeline"}
                           THEN tms \cup {Interval(p, selectedDate)} ELSE tms
           /\ timeouts' = Orphan(timeouts, old)
           /\ dashboard' = IF p = "dashboard" THEN loadDataStart(DashboardState, TRUE)
                           ELSE DashboardState
           /\ timeline' = IF p = "timeline" THEN loadActivitiesStart(TimelineState, TRUE)
                          ELSE TimelineState
           /\ settingsView' = IF p = "settings" THEN loadSettingsStart(SettingsState)
                              ELSE SettingsState
           /\ ev' = Ev("mount", req, FALSE, FALSE)
    /\ UNCHANGED <<resolver, display, picker, transport, selectedDate, language, providerLoading, persisted, srvAnalyzed, srvSummary>>

(* onDateChange(d) -> setSelectedDate(d): dateString changes, so the       *)
(* mounted Dashboard or Timeline runs its effect cleanup and its effect.   *)
DateChange(d) ==
    /\ d # selectedDate
    /\ selectedDate' = d
    /\ IF currentPage = "dashboard"
       THEN /\ CanDispatch
            /\ LET req == Req("loadData", d, TRUE, NoPrefs, "none")
               IN  /\ inflight' = Add(inflight, req)
                   /\ ev' = Ev("dateChange", req, FALSE, FALSE)
            /\ intervals' = clearInterval(intervals, "dashboard") \cup {Interval("dashboard", d)}
            /\ dashboard' = loadDataStart(dashboard, TRUE)
            /\ UNCHANGED timeline
       ELSE IF currentPage = "timeline"
       THEN /\ CanDispatch
            /\ LET req == Req("loadActivities", d, TRUE, NoPrefs, "none")
               IN  /\ inflight' = Add(inflight, req)
                   /\ ev' = Ev("dateChange", req, FALSE, FALSE)
            /\ intervals' = clearInterval(intervals, "timeline") \cup {Interval("timeline", d)}
            /\ timeline' = loadActivitiesStart(timeline, TRUE)
            /\ UNCHANGED dashboard
       ELSE /\ ev' = Ev("dateChange", NoReq, FALSE, FALSE)
            /\ UNCHANGED <<inflight, intervals, dashboard, timeline>>
    /\ UNCHANGED <<resolver, display, picker, transport, currentPage, settingsView, language, providerLoading, timeouts,
                   persisted, srvAnalyzed, srvSummary>>

(* ---------------------------------------------------------------------- *)
(* Dashboard and Timeline: user actions and the interval callback          *)
(* ---------------------------------------------------------------------- *)
(* the retry button of the error panel: onClick={loadData}; the click      *)
(* event is the (truthy) showLoading argument                              *)
DashboardRetry ==
    /\ currentPage = "dashboard"
    /\ DashboardPanel(dashboard) = "error"
    /\ CanDispatch
    /\ LET req == Req("loadData", selectedDate, TRUE, NoPrefs, "none")
       IN  /\ inflight' = Add(inflight, req)
           /\ ev' = Ev("retry", req, FALSE, FALSE)
    /\ dashboard' = loadDataStart(dashboard, TRUE)
    /\ UNCHANGED <<resolver, display, picker, transport, currentPage, selectedDate, timeline, settingsView, language,
                   providerLoading, intervals, timeouts, persisted, srvAnalyzed, srvSummary>>

TimelineRetry ==
    /\ currentPage = "timeline"
    /\ TimelinePanel(timeline) = "error"
    /\ CanDispatch
    /\ LET req == Req("loadActivities", selectedDate, TRUE, NoPrefs, "none")
       IN  /\ inflight' = Add(inflight, req)
           /\ ev' = Ev("retry", req, FALSE, FALSE)
    /\ timeline' = loadActivitiesStart(timeline, TRUE)
    /\ UNCHANGED <<resolver, display, picker, transport, currentPage, selectedDate, dashboard, settingsView, language,
                   providerLoading, intervals, timeouts, persisted, srvAnalyzed, srvSummary>>

(* the generate button: rendered in the data panel, onClick={handleGenerateSummary} *)
GenerateClick ==
    /\ currentPage = "dashboard"
    /\ DashboardPanel(dashboard) = "data"
    /\ ~GenerateDisabled(dashboard)
    /\ CanDispatch
    /\ LET req == Req("handleGenerateSummary", selectedDate, FALSE, NoPrefs, "none")
       IN  /\ inflight' = Add(inflight, req)
           /\ ev' = Ev("generate", req, FALSE, FALSE)
    /\ dashboard' = handleGenerateSummaryStart(dashboard)
    /\ UNCHANGED <<resolver, display, picker, transport, currentPage, selectedDate, timeline, settingsView, language,
                   providerLoading, intervals, timeouts, persisted, srvAnalyzed, srvSummary>>

(* the setInterval callback: loadData(false) / loadActivities(false) of    *)
(* the render that registered it                                           *)
IntervalFire(tm) ==
    /\ tm \in intervals
    /\ CanDispatch
    /\ LET kind == IF tm.view = "dashboard" THEN "loadData" ELSE "loadActivities"
           req == [Req(kind, tm.date, FALSE, NoPrefs, "none") EXCEPT !.alive = tm.alive]
       IN  /\ inflight' = Add(inflight, req)
           /\ ev' = Ev("interval", req, FALSE, ~tm.alive)
    /\ dashboard' = IF tm.view = "dashboard" /\ tm.alive
                    THEN loadDataStart(dashboard, FALSE) ELSE dashboard
    /\ timeline' = IF tm.view = "timeline" /\ tm.alive
                   THEN loadActivitiesStart(timeline, FALSE) ELSE timeline
    /\ UNCHANGED <<resolver, display, picker, transport, currentPage, selectedDate, settingsView, language, providerLoading,
                   intervals, timeouts, persisted, srvAnalyzed, srvSummary>>

(* ---------------------------------------------------------------------- *)
(* Completions of the Dashboard and Timeline handlers                      *)
(* ---------------------------------------------------------------------- *)
(* A handler resumes after its await and calls the setters of the instance *)
(* it belongs to.  When that instance is unmounted its state is not part   *)
(* of the model; the step records that the setters were called.            *)
loadDataResume(r) ==
    /\ BagIn(r, inflight) /\ r.kind = "loadData" /\ r.status # "sent"
    /\ inflight' = Settled(inflight, r)
    /\ dashboard' = IF r.alive THEN loadDataDone(dashboard, r) ELSE dashboard
    /\ ev' = Ev("loadData", r, FALSE, ~r.alive)
    /\ UNCHANGED <<resolver, display, picker, transport, currentPage, selectedDate, timeline, settingsView, language,
                   providerLoading, intervals, timeouts, persisted, srvAnalyzed, srvSummary>>

loadActivitiesResume(r) ==
    /\ BagIn(r, inflight) /\ r.kind = "loadActivities" /\ r.status # "sent"
    /\ inflight' = Settled(inflight, r)
    /\ timeline' = IF r.alive THEN loadActivitiesDone(timeline, r) ELSE timeline
    /\ ev' = Ev("loadActivities", r, FALSE, ~r.alive)
    /\ UNCHANGED <<resolver, display, picker, transport, currentPage, selectedDate, dashboard, settingsView, language,
                   providerLoading, intervals, timeouts, persisted, srvAnalyzed, srvSummary>>

handleGenerateSummaryResume(r) ==
    /\ BagIn(r, inflight) /\ r.kind = "handleGenerateSummary" /\ r.status # "sent"
    /\ inflight' = Settled(inflight, r)
    /\ dashboard' = IF r.alive THEN handleGenerateSummaryDone(dashboard, r) ELSE dashboard
    /\ ev' = Ev("handleGenerateSummary", r, FALSE, ~r.alive)
    /\ UNCHANGED <<resolver, display, picker, transport, currentPage, selectedDate, timeline, settingsView, language,
                   providerLoading, intervals, timeouts, persisted, srvAnalyzed, srvSummary>>

(* ---------------------------------------------------------------------- *)
(* Settings                                                                *)
(* ---------------------------------------------------------------------- *)
(* faulty variant: picking a language in the form switches the locale of   *)
(* the whole application at once                                           *)
SelectLanguage_global(l) ==
    /\ currentPage = "settings"
    /\ ~settingsView.loading
    /\ l # settingsView.settings.language
    /\ settingsView' = [settingsView EXCEPT !.settings.language = l, !.origin = "user"]
    /\ language' = l
    /\ ev' = Ev("selectLanguage", NoReq, FALSE, FALSE)
    /\ UNCHANGED <<resolver, display, picker, transport, currentPage, selectedDate, dashboard, timeline, providerLoading,
                   inflight, intervals, timeouts, persisted, srvAnalyzed, srvSummary>>

(* onClick={() => setSettings({...settings, language: lang.code})} *)
SelectLanguage(l) ==
    /\ currentPage = "settings"
    /\ ~settingsView.loading
    /\ l # settingsView.settings.language
    /\ settingsView' = [settingsView EXCEPT !.settings.language = l, !.origin = "user"]
    /\ ev' = Ev("selectLanguage", NoReq, FALSE, FALSE)
    /\ UNCHANGED <<resolver, display, picker, transport, currentPage, selectedDate, dashboard, timeline, language, providerLoading,
                   inflight, intervals, timeouts, persisted, srvAnalyzed, srvSummary>>

(* the save button: disabled={saving || isSaved}, onClick={handleSave} *)
SaveClick ==
    /\ currentPage = "settings"
    /\ ~settingsView.loading
    /\ ~(settingsView.saving \/ settingsView.isSaved)
    /\ CanDispatch
    /\ LET req == Req("handleSave", NoDate, FALSE, settingsView.settings, language)
       IN  /\ inflight' = Add(inflight, req)
           /\ ev' = Ev("save", req, FALSE, FALSE)
    /\ settingsView' = handleSaveStart(settingsView)
    /\ UNCHANGED <<resolver, display, picker, transport, currentPage, selectedDate, dashboard, timeline, language, providerLoading,
                   intervals, timeouts, persisted, srvAnalyzed, srvSummary>>

loadSettingsResume(r) ==
    /\ BagIn(r, inflight) /\ r.kind = "loadSettings" /\ r.status # "sent"
    /\ inflight' = Settled(inflight, r)
    /\ settingsView' = IF r.alive THEN loadSettingsDone(settingsView, r) ELSE settingsView
    /\ ev' = Ev("loadSettings", r, FALSE, ~r.alive)
    /\ UNCHANGED <<resolver, display, picker, transport, currentPage, selectedDate, dashboard, timeline, language, providerLoading,
                   intervals, timeouts, persisted, srvAnalyzed, srvSummary>>

(* handleSave after its await; on success it also calls the provider's     *)
(* setLanguage and registers setTimeout(() => setIsSaved(false), 2000)      *)
handleSaveResume(r) ==
    /\ BagIn(r, inflight) /\ r.kind = "handleSave" /\ r.status # "sent"
    /\ inflight' = Settled(inflight, r)
    /\ settingsView' = IF r.alive THEN handleSaveDone(settingsView, r) ELSE settingsView
    /\ language' = IF CallsSetGlobalLanguage(r) THEN SavedLanguage(r) ELSE language
    /\ timeouts' = IF r.status = "ok"
                   THEN timeouts \cup {[view |-> "settings", alive |-> r.alive]}
                   ELSE timeouts
    /\ ev' = Ev("handleSave", r, CallsSetGlobalLanguage(r), ~r.alive)
    /\ UNCHANGED <<resolver, display, picker, transport, currentPage, selectedDate, dashboard, timeline, providerLoading,
                   intervals, persisted, srvAnalyzed, srvSummary>>

(* the setTimeout callback: setIsSaved(false) *)
TimeoutFire(to) ==
    /\ to \in timeouts
    /\ timeouts' = timeouts \ {to}
    /\ settingsView' = IF to.alive THEN [settingsView EXCEPT !.isSaved = FALSE]
                       ELSE settingsView
    /\ ev' = Ev("timeout", NoReq, FALSE, ~to.alive)
    /\ UNCHANGED <<resolver, display, picker, transport, currentPage, selectedDate, dashboard, timeline, language, providerLoading,
                   inflight, intervals, persisted, srvAnalyzed, srvSummary>>

(* ---------------------------------------------------------------------- *)
(* LanguageProvider                                                        *)
(* ---------------------------------------------------------------------- *)
loadLanguageResume(r) ==
    /\ BagIn(r, inflight) /\ r.kind = "loadLanguage" /\ r.status # "sent"
    /\ inflight' = Settled(inflight, r)
    /\ language' = loadLanguageDone(r)
    /\ providerLoading' = FALSE
    /\ ev' = Ev("loadLanguage", r, FALSE, FALSE)
    /\ UNCHANGED <<resolver, display, picker, transport, currentPage, selectedDate, dashboard, timeline, settingsView,
                   intervals, timeouts, persisted, srvAnalyzed, srvSummary>>

(* ---------------------------------------------------------------------- *)
(* api.request and the backend                                             *)
(* ---------------------------------------------------------------------- *)
(* request(): the fetch settles; response.ok resolves with the body,       *)
(* anything else throws                                                    *)
Serve(r, ok) ==
    /\ BagIn(r, inflight) /\ r.status = "sent"
    /\ (ok /\ r.kind = "handleGenerateSummary") => srvSummary[r.date] < MaxSummaryVer
    /\ inflight' = Add(Remove(inflight, r),
                       [r EXCEPT !.status = IF ok THEN "ok" ELSE "fail",
                                 !.resp = IF ok THEN Response(r) ELSE NoResp])
    /\ persisted' = IF ok /\ r.kind = "handleSave" THEN Merge(persisted, r.payload)
                    ELSE persisted
    /\ srvSummary' = IF ok /\ r.kind = "handleGenerateSummary"
                     THEN [srvSummary EXCEPT ![r.date] = @ + 1] ELSE srvSummary
    /\ ev' = Ev("backend", NoReq, FALSE, FALSE)
    /\ UNCHANGED <<resolver, display, picker, transport, currentPage, selectedDate, dashboard, timeline, settingsView, language,
                   providerLoading, intervals, timeouts, srvAnalyzed>>

(* the tracker analyzes one more record of date d *)
BackendAnalyze(d) ==
    /\ srvAnalyzed[d] < MaxAnalyzed
    /\ srvAnalyzed' = [srvAnalyzed EXCEPT ![d] = @ + 1]
    /\ ev' = Ev("backend", NoReq, FALSE, FALSE)
    /\ UNCHANGED <<resolver, display, picker, transport, currentPage, selectedDate, dashboard, timeline, settingsView, language,
                   providerLoading, inflight, intervals, timeouts, persisted, srvSummary>>

Next ==
    \/ \E p \in PageType : Navigate(p)
    \/ \E d \in Dates : DateChange(d)
    \/ DashboardRetry
    \/ TimelineRetry
    \/ GenerateClick
    \/ \E tm \in intervals : IntervalFire(tm)
    \/ \E r \in BagToSet(inflight) : loadDataResume(r)
    \/ \E r \in BagToSet(inflight) : loadActivitiesResume(r)
    \/ \E r \in BagToSet(inflight) : handleGenerateSummaryResume(r)
    \/ \E l \in Language : SelectLanguage(l)
    \/ SaveClick
    \/ \E r \in BagToSet(inflight) : loadSettingsResume(r)
    \/ \E r \in BagToSet(inflight) : handleSaveResume(r)
    \/ \E to \in timeouts : TimeoutFire(to)
    \/ \E r \in BagToSet(inflight) : loadLanguageResume(r)
    \/ \E r \in BagToSet(inflight), ok \in BOOLEAN : Serve(r, ok)
    \/ \E d \in Dates : BackendAnalyze(d)

Spec == Init /\ [][Next]_vars


(* ---------------------------------------------------------------------- *)
(* The two flows of the client.  They share the page and nothing else:    *)
(* the data views never write language, persisted or settingsView, and    *)
(* the settings flow never writes the data views' results.                *)
(* ---------------------------------------------------------------------- *)
(* Data synchronisation: Dashboard and Timeline, once the provider's       *)
(* startup load has settled *)
InitSync ==
    /\ currentPage = "dashboard"
    /\ selectedDate = Today
    /\ dashboard = loadDataStart(DashboardState, TRUE)
    /\ timeline = TimelineState
    /\ settingsView = SettingsState
    /\ language = DefaultLanguage
    /\ providerLoading = FALSE
    /\ inflight = SetToBag({Req("loadData", Today, TRUE, NoPrefs, "none")})
    /\ intervals = {Interval("dashboard", Today)}
    /\ timeouts = {}
    /\ persisted = [language |-> DefaultLanguage]
    /\ srvAnalyzed = [d \in Dates |-> 0]
    /\ srvSummary = [d \in Dates |-> 0]
    /\ ev = Ev("init", NoReq, FALSE, FALSE)
    /\ resolver = NoCall
    /\ display = NoStatsShown
    /\ picker = NoPicker
    /\ transport = NoRequest

NextSync ==
    \/ \E p \in {"dashboard", "timeline"} : Navigate(p)
    \/ \E d \in Dates : DateChange(d)
    \/ DashboardRetry
    \/ TimelineRetry
    \/ GenerateClick
    \/ \E tm \in intervals : IntervalFire(tm)
    \/ \E r \in BagToSet(inflight) : loadDataResume(r)
    \/ \E r \in BagToSet(inflight) : loadActivitiesResume(r)
    \/ \E r \in BagToSet(inflight) : handleGenerateSummaryResume(r)
    \/ \E r \in BagToSet(inflight), ok \in BOOLEAN : Serve(r, ok)
    \/ \E d \in Dates : BackendAnalyze(d)

SpecSync == InitSync /\ [][NextSync]_vars

(* Settings and locale: the Settings view, the LanguageProvider and the    *)
(* Dashboard as the page the user comes from and leaves to *)
NextSettings ==
    \/ \E p \in {"dashboard", "settings"} : Navigate(p)
    \/ \E r \in BagToSet(inflight) : loadDataResume(r)
    \/ \E l \in Language : SelectLanguage(l)
    \/ SaveClick
    \/ \E r \in BagToSet(inflight) : loadSettingsResume(r)
    \/ \E r \in BagToSet(inflight) : handleSaveResume(r)
    \/ \E to \in timeouts : TimeoutFire(to)
    \/ \E r \in BagToSet(inflight) : loadLanguageResume(r)
    \/ \E r \in BagToSet(inflight), ok \in BOOLEAN : Serve(r, ok)

SpecSettings == Init /\ [][NextSettings]_vars

(* ---------------------------------------------------------------------- *)
(* A data view that stays mounted, under the scheduling of the browser:   *)
(* the interval timer keeps firing, every request settles and the handler *)
(* awaiting it resumes.                                                    *)
(* ---------------------------------------------------------------------- *)
InitLive ==
    /\ currentPage \in {"dashboard", "timeline"}
    /\ selectedDate = Today
    /\ dashboard = IF currentPage = "dashboard" THEN loadDataStart(DashboardState, TRUE)
                   ELSE DashboardState
    /\ timeline = IF currentPage = "timeline" THEN loadActivitiesStart(TimelineState, TRUE)
                  ELSE TimelineState
    /\ settingsView = SettingsState
    /\ language = DefaultLanguage
    /\ providerLoading = FALSE
    /\ inflight = SetToBag({MountReq(currentPage)})
    /\ intervals = {Interval(currentPage, Today)}
    /\ timeouts = {}
    /\ persisted = [language |-> DefaultLanguage]
    /\ srvAnalyzed = [d \in Dates |-> 0]
    /\ srvSummary = [d \in Dates |-> 0]
    /\ ev = Ev("init", NoReq, FALSE, FALSE)
    /\ resolver = NoCall
    /\ display = NoStatsShown
    /\ picker = NoPicker
    /\ transport = NoRequest

NextLive ==
    \/ \E d \in Dates : DateChange(d)
    \/ DashboardRetry
    \/ TimelineRetry
    \/ GenerateClick
    \/ \E tm \in intervals : IntervalFire(tm)
    \/ \E r \in BagToSet(inflight) : loadDataResume(r)
    \/ \E r \in BagToSet(inflight) : loadActivitiesResume(r)
    \/ \E r \in BagToSet(inflight) : handleGenerateSummaryResume(r)
    \/ \E r \in BagToSet(inflight), ok \in BOOLEAN : Serve(r, ok)
    \/ \E d \in Dates : BackendAnalyze(d)

(* what identifies the requests of one dispatch site: the handler, the     *)
(* date and the showLoading argument it was called with                    *)
RequestKeys ==
    [kind : {"loadData", "loadActivities", "handleGenerateSummary"},
     date : Dates, showLoading : BOOLEAN]

HasKey(r, k) == r.kind = k.kind /\ r.date = k.date /\ r.showLoading = k.showLoading

(* the fetch of a request with key k settles *)
Settle(k) ==
    \E r \in BagToSet(inflight), ok \in BOOLEAN : HasKey(r, k) /\ Serve(r, ok)

(* the handler awaiting a settled request with key k resumes *)
Resume(k) ==
    \E r \in BagToSet(inflight) :
        /\ HasKey(r, k)
        /\ \/ loadDataResume(r)
           \/ loadActivitiesResume(r)
           \/ handleGenerateSummaryResume(r)

SpecLive ==
    /\ InitLive /\ [][NextLive]_vars
    /\ WF_vars(\E tm \in intervals : IntervalFire(tm))
    /\ \A k \in RequestKeys : WF_vars(Settle(k)) /\ WF_vars(Resume(k))

(* ---------------------------------------------------------------------- *)
(* Any one view that stays mounted, under the scheduling of the browser    *)
(* ---------------------------------------------------------------------- *)
InitBusy ==
    /\ currentPage \in PageType
    /\ selectedDate = Today
    /\ dashboard = IF currentPage = "dashboard" THEN loadDataStart(DashboardState, TRUE)
                   ELSE DashboardState
    /\ timeline = IF currentPage = "timeline" THEN loadActivitiesStart(TimelineState, TRUE)
                  ELSE TimelineState
    /\ settingsView = IF currentPage = "settings" THEN loadSettingsStart(SettingsState)
                      ELSE SettingsState
    /\ language = DefaultLanguage
    /\ providerLoading = FALSE
    /\ inflight = SetToBag({MountReq(currentPage)})
    /\ intervals = IF currentPage = "settings" THEN {} ELSE {Interval(currentPage, Today)}
    /\ timeouts = {}
    /\ persisted = [language |-> DefaultLanguage]
    /\ srvAnalyzed = [d \in Dates |-> 0]
    /\ srvSummary = [d \in Dates |-> 0]
    /\ ev = Ev("init", NoReq, FALSE, FALSE)
    /\ resolver = NoCall
    /\ display = NoStatsShown
    /\ picker = NoPicker
    /\ transport = NoRequest

NextBusy ==
    \/ NextLive
    \/ \E l \in Language : SelectLanguage(l)
    \/ SaveClick
    \/ \E r \in BagToSet(inflight) : loadSettingsResume(r)
    \/ \E r \in BagToSet(inflight) : handleSaveResume(r)
    \/ \E to \in timeouts : TimeoutFire(to)

SettingsKeys == [kind : {"loadSettings", "handleSave"}, date : {NoDate}, showLoading : {FALSE}]

(* the Settings handler awaiting a settled request with key k resumes *)
ResumeSettings(k) ==
    \E r \in BagToSet(inflight) :
        /\ HasKey(r, k)
        /\ \/ loadSettingsResume(r)
           \/ handleSaveResume(r)

SpecBusy ==
    /\ InitBusy /\ [][NextBusy]_vars
    /\ WF_vars(\E tm \in intervals : IntervalFire(tm))
    /\ \A k \in RequestKeys : WF_vars(Settle(k)) /\ WF_vars(Resume(k))
    /\ \A k \in SettingsKeys : WF_vars(Settle(k)) /\ WF_vars(ResumeSettings(k))

(* ---------------------------------------------------------------------- *)
(* The resolver t(lang, key), one statement per step                       *)
(* ---------------------------------------------------------------------- *)
clientVars == <<currentPage, selectedDate, dashboard, timeline, settingsView, language,
                providerLoading, inflight, intervals, timeouts, persisted, srvAnalyzed,
                srvSummary, ev>>

(* const keys = key.split('.');                                            *)
(* let value = translations[lang] || translations['en'];                   *)
tEnter ==
    /\ resolver.pc = "call"
    /\ LET dict == Loaded(resolver.removed)
           src == RootLocale(dict, resolver.lang)
       IN  resolver' = [resolver EXCEPT !.pc = "loop", !.value = dict[src], !.src = src]
    /\ UNCHANGED <<clientVars, display, picker, transport>>

(* one iteration of for (const k of keys): value = value[k];               *)
(* if (value === undefined) { console.warn(...); return key; }             *)
tLoop ==
    /\ resolver.pc = "loop"
    /\ resolver.i <= Len(resolver.key)
    /\ LET v == Get(resolver.value, resolver.key[resolver.i])
       IN  resolver' = IF v.type = "undefined"
                       THEN [resolver EXCEPT !.pc = "done", !.value = v, !.ret = "key"]
                       ELSE [resolver EXCEPT !.value = v, !.i = @ + 1]
    /\ UNCHANGED <<clientVars, display, picker, transport>>

(* return value, after the last segment *)
tReturn ==
    /\ resolver.pc = "loop"
    /\ resolver.i > Len(resolver.key)
    /\ resolver' = [resolver EXCEPT !.pc = "done", !.ret = "value"]
    /\ UNCHANGED <<clientVars, display, picker, transport>>

(* t is called with any locale code and key, on the dictionaries as        *)
(* shipped or with one leaf removed from one locale                        *)
InitResolver ==
    /\ currentPage = "dashboard"
    /\ selectedDate = Today
    /\ dashboard = loadDataStart(DashboardState, TRUE)
    /\ timeline = TimelineState
    /\ settingsView = SettingsState
    /\ language = DefaultLanguage
    /\ providerLoading = FALSE
    /\ inflight = SetToBag({Req("loadData", Today, TRUE, NoPrefs, "none")})
    /\ intervals = {Interval("dashboard", Today)}
    /\ timeouts = {}
    /\ persisted = [language |-> DefaultLanguage]
    /\ srvAnalyzed = [d \in Dates |-> 0]
    /\ srvSummary = [d \in Dates |-> 0]
    /\ ev = Ev("init", NoReq, FALSE, FALSE)
    /\ resolver \in {Call(l, k, rm) : l \in Locales, k \in Keys, rm \in Removals}
    /\ display = NoStatsShown
    /\ picker = NoPicker
    /\ transport = NoRequest

NextResolver ==
    \/ tEnter
    \/ tLoop
    \/ tReturn

SpecResolver == InitResolver /\ [][NextResolver]_vars

(* ---------------------------------------------------------------------- *)
(* Dashboard render of a loaded DailyStats                                 *)
(* ---------------------------------------------------------------------- *)
IdleClient ==
    /\ currentPage = "dashboard"
    /\ selectedDate = Today
    /\ dashboard = loadDataStart(DashboardState, TRUE)
    /\ timeline = TimelineState
    /\ settingsView = SettingsState
    /\ language = DefaultLanguage
    /\ providerLoading = FALSE
    /\ inflight = SetToBag({Req("loadData", Today, TRUE, NoPrefs, "none")})
    /\ intervals = {Interval("dashboard", Today)}
    /\ timeouts = {}
    /\ persisted = [language |-> DefaultLanguage]
    /\ srvAnalyzed = [d \in Dates |-> 0]
    /\ srvSummary = [d \in Dates |-> 0]
    /\ ev = Ev("init", NoReq, FALSE, FALSE)

(* the final return of Dashboard: the work-hours card and, when the        *)
(* distribution has a key, one ActivityBar per category                    *)
renderStats ==
    /\ ~display.rendered
    /\ display.stats \in DailyStats
    /\ display' = [display EXCEPT
           !.rendered = TRUE,
           !.workHours = workHoursDisplay(display.stats.work_hours),
           !.percentage = IF DOMAIN display.stats.category_distribution # {}
                          THEN ActivityBars(display.stats)
                          ELSE NoBars]
    /\ UNCHANGED <<clientVars, resolver, picker, transport>>

InitDisplay ==
    /\ IdleClient
    /\ resolver = NoCall
    /\ display \in {Shown(st) : st \in DailyStats}
    /\ picker = NoPicker
    /\ transport = NoRequest

NextDisplay == renderStats

SpecDisplay == InitDisplay /\ [][NextDisplay]_vars

(* ---------------------------------------------------------------------- *)
(* DatePicker: the Date handed to App.setSelectedDate                      *)
(* ---------------------------------------------------------------------- *)
(* time passes on the client *)
clockTick ==
    /\ picker.op # "none"
    /\ picker.now + 1 \in Clock
    /\ picker' = [picker EXCEPT !.now = @ + 1, !.op = "tick"]
    /\ UNCHANGED <<clientVars, resolver, display, transport>>

(* onDateChange(new Date()) *)
setToday ==
    /\ picker.op # "none"
    /\ picker' = [picker EXCEPT !.selectedDate = picker.now,
                                !.picked = LocalDay(picker.now, picker.offset),
                                !.op = "setToday"]
    /\ UNCHANGED <<clientVars, resolver, display, transport>>

(* onDateChange(new Date(e.target.value + 'T00:00:00')) *)
handleDateInputChange(day) ==
    /\ picker.op # "none"
    /\ picker' = [picker EXCEPT !.selectedDate = LocalMidnight(day, picker.offset),
                                !.picked = day,
                                !.op = "handleDateInputChange"]
    /\ UNCHANGED <<clientVars, resolver, display, transport>>

(* newDate.setDate(newDate.getDate() + days): the same time of day, days   *)
(* calendar days later on the local clock                                  *)
changeDate(days) ==
    /\ picker.op # "none"
    /\ LocalDay(picker.selectedDate, picker.offset) + days \in 1..MaxDay
    /\ picker' = [picker EXCEPT !.selectedDate = @ + 24 * days,
                                !.picked = LocalDay(picker.selectedDate, picker.offset) + days,
                                !.op = "changeDate"]
    /\ UNCHANGED <<clientVars, resolver, display, transport>>

(* App: useState(new Date()) on a client in any of the timezones *)
InitPicker ==
    /\ IdleClient
    /\ resolver = NoCall
    /\ display = NoStatsShown
    /\ picker \in {Picked(off, now, now, LocalDay(now, off), "init") :
                       off \in Offsets, now \in Clock}
    /\ transport = NoRequest

NextPicker ==
    \/ clockTick
    \/ setToday
    \/ \E day \in 1..MaxDay : handleDateInputChange(day)
    \/ \E days \in {-1, 1} : changeDate(days)

SpecPicker == InitPicker /\ [][NextPicker]_vars

(* ---------------------------------------------------------------------- *)
(* The old-version Dashboard and Timeline: each view keeps its own         *)
(* selectedDate, and loadData / loadActivities take no argument            *)
(* ---------------------------------------------------------------------- *)
(* loadData up to its await: setLoading(true); setError(null) *)
oldLoadDataStart(d) == [d EXCEPT !.loading = TRUE, !.error = Null]

(* loadData after its await: try / catch / finally { setLoading(false) } *)
oldLoadDataDone(d, r) ==
    LET d1 == IF r.status = "ok"
              THEN [d EXCEPT !.stats = r.resp.stats, !.summary = r.resp.summary]
              ELSE [d EXCEPT !.error = "dashboard.loadFailed"]
    IN  [d1 EXCEPT !.loading = FALSE]

oldLoadActivitiesStart(t) == [t EXCEPT !.loading = TRUE, !.error = Null]

oldLoadActivitiesDone(t, r) ==
    LET t1 == IF r.status = "ok"
              THEN [t EXCEPT !.activities = r.resp.activities]
              ELSE [t EXCEPT !.error = "timeline.loadFailed"]
    IN  [t1 EXCEPT !.loading = FALSE]

(* the request a call of the mounted view's load handler awaits *)
oldReq(date) ==
    Req(IF currentPage = "dashboard" THEN "loadData" ELSE "loadActivities",
        date, TRUE, NoPrefs, "none")

(* a call of loadData() / loadActivities() by the mounted view *)
oldLoad(op, date) ==
    /\ CanDispatch
    /\ inflight' = Add(inflight, oldReq(date))
    /\ ev' = Ev(op, oldReq(date), FALSE, FALSE)
    /\ dashboard' = IF currentPage = "dashboard" THEN oldLoadDataStart(dashboard)
                    ELSE dashboard
    /\ timeline' = IF currentPage = "timeline" THEN oldLoadActivitiesStart(timeline)
                   ELSE timeline

(* the date input of the data panel: onChange -> setSelectedDate; the      *)
(* effect's cleanup and the effect run                                     *)
oldDateChange(d) ==
    /\ d # selectedDate
    /\ ~ViewLoading(currentPage, dashboard, timeline)
    /\ ViewError(currentPage, dashboard, timeline) = Null
    /\ selectedDate' = d
    /\ oldLoad("dateChange", d)
    /\ intervals' = clearInterval(intervals, currentPage) \cup {Interval(currentPage, d)}
    /\ UNCHANGED <<resolver, display, picker, transport, currentPage, settingsView, language, providerLoading,
                   timeouts, persisted, srvAnalyzed, srvSummary>>

(* the retry button of the error panel: onClick={loadData} *)
oldRetry ==
    /\ ~ViewLoading(currentPage, dashboard, timeline)
    /\ ViewError(currentPage, dashboard, timeline) # Null
    /\ oldLoad("retry", selectedDate)
    /\ UNCHANGED <<resolver, display, picker, transport, currentPage, selectedDate, settingsView, language,
                   providerLoading, intervals, timeouts, persisted, srvAnalyzed, srvSummary>>

(* the setInterval callback: loadData() / loadActivities() *)
oldIntervalFire(tm) ==
    /\ tm \in intervals
    /\ oldLoad("interval", tm.date)
    /\ UNCHANGED <<resolver, display, picker, transport, currentPage, selectedDate, settingsView, language,
                   providerLoading, intervals, timeouts, persisted, srvAnalyzed, srvSummary>>

oldLoadResume(r) ==
    /\ BagIn(r, inflight) /\ r.kind \in {"loadData", "loadActivities"} /\ r.status # "sent"
    /\ inflight' = Settled(inflight, r)
    /\ dashboard' = IF r.kind = "loadData" THEN oldLoadDataDone(dashboard, r) ELSE dashboard
    /\ timeline' = IF r.kind = "loadActivities" THEN oldLoadActivitiesDone(timeline, r)
                   ELSE timeline
    /\ ev' = Ev(r.kind, r, FALSE, FALSE)
    /\ UNCHANGED <<resolver, display, picker, transport, currentPage, selectedDate, settingsView, language,
                   providerLoading, intervals, timeouts, persisted, srvAnalyzed, srvSummary>>

(* the old Dashboard or the old Timeline has just mounted *)
InitOld ==
    /\ currentPage \in {"dashboard", "timeline"}
    /\ selectedDate = Today
    /\ dashboard = IF currentPage = "dashboard" THEN oldLoadDataStart(DashboardState)
                   ELSE DashboardState
    /\ timeline = IF currentPage = "timeline" THEN oldLoadActivitiesStart(TimelineState)
                  ELSE TimelineState
    /\ settingsView = SettingsState
    /\ language = DefaultLanguage
    /\ providerLoading = FALSE
    /\ inflight = SetToBag({oldReq(Today)})
    /\ intervals = {Interval(currentPage, Today)}
    /\ timeouts = {}
    /\ persisted = [language |-> DefaultLanguage]
    /\ srvAnalyzed = [d \in Dates |-> 0]
    /\ srvSummary = [d \in Dates |-> 0]
    /\ ev = Ev("init", NoReq, FALSE, FALSE)
    /\ resolver = NoCall
    /\ display = NoStatsShown
    /\ picker = NoPicker
    /\ transport = NoRequest

NextOld ==
    \/ \E d \in Dates : oldDateChange(d)
    \/ oldRetry
    \/ \E tm \in intervals : oldIntervalFire(tm)
    \/ \E r \in BagToSet(inflight) : oldLoadResume(r)
    \/ \E r \in BagToSet(inflight), ok \in BOOLEAN : Serve(r, ok)
    \/ \E d \in Dates : BackendAnalyze(d)

SpecOld == InitOld /\ [][NextOld]_vars

(* ---------------------------------------------------------------------- *)
(* request(url, options), one statement per step                           *)
(* ---------------------------------------------------------------------- *)
(* const response = await fetch(...): the promise of fetch settles         *)
requestFetch ==
    /\ transport.pc = "fetch"
    /\ transport' = IF transport.outcome = NetworkError
                    THEN [transport EXCEPT !.pc = "catch", !.value = "TypeError"]
                    ELSE [transport EXCEPT !.pc = "ok"]
    /\ UNCHANGED <<clientVars, resolver, display, picker>>

(* if (!response.ok) { throw new Error(`HTTP Error: ${response.status}`) } *)
requestCheck ==
    /\ transport.pc = "ok"
    /\ transport' = IF ResponseOk(transport.outcome)
                    THEN [transport EXCEPT !.pc = "json"]
                    ELSE [transport EXCEPT !.pc = "catch", !.value = "HTTP Error"]
    /\ UNCHANGED <<clientVars, resolver, display, picker>>

(* return await response.json() *)
requestJson ==
    /\ transport.pc = "json"
    /\ LET parsed == ResponseJson(transport.body)
       IN  transport' = IF parsed.threw
                        THEN [transport EXCEPT !.pc = "catch", !.value = parsed.value]
                        ELSE [transport EXCEPT !.pc = "done", !.result = "resolved",
                                               !.settled = @ + 1, !.value = parsed.value]
    /\ UNCHANGED <<clientVars, resolver, display, picker>>

(* catch (error) { console.error(...); throw error; } *)
requestCatch ==
    /\ transport.pc = "catch"
    /\ transport' = [transport EXCEPT !.pc = "done", !.logged = @ + 1,
                                      !.result = "rejected", !.settled = @ + 1]
    /\ UNCHANGED <<clientVars, resolver, display, picker>>

(* any call of the api object, answered in any way *)
InitTransport ==
    /\ IdleClient
    /\ resolver = NoCall
    /\ display = NoStatsShown
    /\ picker = NoPicker
    /\ transport \in {Requested(c, o, b) :
                         c \in ApiCalls, o \in Statuses \cup {NetworkError}, b \in Bodies}

NextTransport ==
    \/ requestFetch
    \/ requestCheck
    \/ requestJson
    \/ requestCatch

SpecTransport == InitTransport /\ [][NextTransport]_vars

(* ---------------------------------------------------------------------- *)
(* Dashboard.loadData with its two requests: getStats and getSummary       *)
(* settle one by one under Promise.all                                     *)
(* ---------------------------------------------------------------------- *)
Parts == {"getStats", "getSummary"}

(* the part has resolved and Promise.all keeps its value *)
PartResolved(r, part) ==
    IF part = "getStats" THEN r.resp.stats # NoStats ELSE r.resp.summary # NoSummary

(* Promise.all([getStats, getSummary]): it resolves once both parts have   *)
(* resolved and rejects with the first part that rejects                   *)
PromiseAll(r, part, ok) ==
    LET full == Response(r)
        resp == IF ~ok THEN r.resp
                ELSE IF part = "getStats" THEN [r.resp EXCEPT !.stats = full.stats]
                ELSE [r.resp EXCEPT !.summary = full.summary]
        both == resp.stats # NoStats /\ resp.summary # NoSummary
    IN  [r EXCEPT !.resp = resp,
                  !.status = IF ~ok THEN "fail" ELSE IF both THEN "ok" ELSE "sent"]

(* one of the two requests of a pending loadData settles *)
ServePart(r, part, ok) ==
    /\ BagIn(r, inflight) /\ r.kind = "loadData" /\ r.status = "sent"
    /\ ~PartResolved(r, part)
    /\ inflight' = Add(Remove(inflight, r), PromiseAll(r, part, ok))
    /\ ev' = Ev("backend", NoReq, FALSE, FALSE)
    /\ UNCHANGED <<resolver, display, picker, transport, currentPage, selectedDate, dashboard, timeline,
                   settingsView, language, providerLoading, intervals, timeouts, persisted,
                   srvAnalyzed, srvSummary>>

NextParts ==
    \/ \E d \in Dates : DateChange(d)
    \/ DashboardRetry
    \/ GenerateClick
    \/ \E tm \in intervals : IntervalFire(tm)
    \/ \E r \in BagToSet(inflight) : loadDataResume(r)
    \/ \E r \in BagToSet(inflight) : handleGenerateSummaryResume(r)
    \/ \E r \in BagToSet(inflight), part \in Parts, ok \in BOOLEAN : ServePart(r, part, ok)
    \/ \E r \in BagToSet(inflight), ok \in BOOLEAN :
           r.kind = "handleGenerateSummary" /\ Serve(r, ok)
    \/ \E d \in Dates : BackendAnalyze(d)

SpecParts == InitSync /\ [][NextParts]_vars

(* ---------------------------------------------------------------------- *)
(* Properties                                                              *)
(* ---------------------------------------------------------------------- *)
FetchKinds == {"loadData", "loadActivities"}
ResumeOps == {"loadData", "loadActivities", "handleGenerateSummary", "loadSettings",
              "handleSave", "loadLanguage"}

(* the error of the view a fetch handler belongs to *)
ErrorOf(kind) == IF kind = "loadData" THEN dashboard.error ELSE timeline.error

(* C1: a fetch of a mounted Dashboard or Timeline that was dispatched for  *)
(* a date other than the one now selected changes nothing of the view     *)
(* when it completes, whether it succeeded or failed.                      *)
StaleResultDiscarded ==
    [][(ev'.op \in FetchKinds /\ ev'.req.alive /\ ev'.req.date # selectedDate)
        => (dashboard' = dashboard /\ timeline' = timeline)]_vars

(* C2: at most one generation request of the Dashboard is in flight.       *)
GenerationsInFlight ==
    BagCardinality([r \in {q \in BagToSet(inflight) : q.kind = "handleGenerateSummary"}
                       |-> inflight[r]])

GenerationExclusive == GenerationsInFlight <= 1

(* C3: a save whose updateSettings rejected calls no setLanguage, leaves   *)
(* the provider's locale as it was and sets the view's error to the        *)
(* save-failed message.                                                    *)
NoOptimisticLocaleSwitch ==
    [][(ev'.op = "handleSave" /\ ev'.req.status = "fail")
        => /\ ~ev'.setLanguage
           /\ language' = language
           /\ ev'.req.alive => settingsView'.error = "settings.saveFailed"]_vars

(* a save of a newly selected language has just been rejected *)
SaveRejectedReached ==
    /\ ev.op = "handleSave" /\ ev.req.status = "fail" /\ ev.req.alive
    /\ ev.req.payload.language # language

(* C4: setLanguage is called by the Settings view only from a save whose   *)
(* updateSettings was dispatched and confirmed, and the locale written is  *)
(* the language of that request's body.                                    *)
PropagationOrdering ==
    ev.setLanguage =>
        /\ ev.op = "handleSave"
        /\ ev.req.status = "ok"
        /\ ev.req.resp.prefs.language = ev.req.payload.language
        /\ language = ev.req.payload.language

(* the locale has just been switched by a save during which the user       *)
(* selected yet another language                                           *)
SwitchAfterReselectReached ==
    /\ ev.setLanguage /\ ev.req.alive
    /\ settingsView.settings.language # ev.req.payload.language

(* C5: a generation is dispatched for the selected date only when the      *)
(* stats loaded in the view are those of that date and count at least one  *)
(* analyzed record.                                                        *)
GenerationPrecondition ==
    ev.op = "generate" =>
        /\ dashboard.stats.date = ev.req.date
        /\ dashboard.stats.analyzed_records > 0

(* C6: every registered interval belongs to the mounted view, and an       *)
(* interval callback runs, and dispatches its fetch, only for the mounted  *)
(* view.                                                                   *)
TimerTeardown ==
    /\ \A tm \in intervals : tm.alive /\ tm.view = currentPage
    /\ ev.op = "interval" => (ev.req.alive /\ OwnerOf(ev.req.kind) = currentPage)

(* an interval callback has just run while a view unmounted earlier still  *)
(* has a request pending                                                   *)
TimerAfterUnmountReached ==
    /\ ev.op = "interval"
    /\ \E r \in BagToSet(inflight) : ~r.alive

(* C7: no handler calls state setters of an unmounted view.                *)
NoUpdateAfterUnmount == ~ev.unmounted

(* C8: the interval callback and the completion of a fetch dispatched with *)
(* showLoading=false leave the loading flags as they are; loading turns    *)
(* true only on mount, date change and retry.                              *)
BackgroundRefreshSilent ==
    [][/\ (ev'.op = "interval" \/ (ev'.op \in FetchKinds /\ ~ev'.req.showLoading))
          => (dashboard'.loading = dashboard.loading /\ timeline'.loading = timeline.loading)
       /\ ((~dashboard.loading /\ dashboard'.loading) \/ (~timeline.loading /\ timeline'.loading))
          => ev'.op \in {"mount", "dateChange", "retry"}]_vars

(* a background fetch of the mounted Dashboard has just completed behind   *)
(* the data panel                                                          *)
SilentCompletionReached ==
    /\ ev.op = "loadData" /\ ev.req.alive /\ ~ev.req.showLoading
    /\ ~dashboard.loading

(* C9: while page and date stay the same, an error of the view is cleared  *)
(* only by the successful completion of a fetch for that date (or by the   *)
(* user's retry).                                                          *)
ErrorPersists ==
    [][(/\ currentPage' = currentPage /\ selectedDate' = selectedDate
        /\ \/ (dashboard.error # Null /\ dashboard'.error = Null)
           \/ (timeline.error # Null /\ timeline'.error = Null))
        => \/ ev'.op = "retry"
           \/ (ev'.op \in FetchKinds /\ ev'.req.status = "ok"
               /\ ev'.req.date = selectedDate)]_vars

(* C10 as stated: a view in ERROR dispatches a fetch for the same date     *)
(* only from its retry button.                                             *)
ManualRetryOnly ==
    [][(/\ ev'.req.status = "sent" /\ ev'.req.kind \in FetchKinds
        /\ currentPage' = currentPage /\ ev'.req.date = selectedDate
        /\ ErrorOf(ev'.req.kind) # Null)
        => ev'.op = "retry"]_vars

(* C10 amended: a handler that resumes, with a failure or a success,       *)
(* starts no request; a view in ERROR dispatches a fetch for the same date *)
(* only from its retry button or from its 30-second interval callback.     *)
NoAutomaticRetry ==
    [][/\ ev'.op \in ResumeOps
          => BagCardinality(inflight') = BagCardinality(inflight) - 1
       /\ (/\ ev'.req.status = "sent" /\ ev'.req.kind \in FetchKinds
           /\ currentPage' = currentPage /\ ev'.req.date = selectedDate
           /\ ErrorOf(ev'.req.kind) # Null)
          => ev'.op \in {"retry", "interval"}]_vars

(* a fetch of the mounted Dashboard has just failed and nothing is in      *)
(* flight for the view                                                     *)
FetchFailedReached ==
    /\ ev.op = "loadData" /\ ev.req.status = "fail" /\ ev.req.alive
    /\ dashboard.error = "dashboard.loadFailed"
    /\ \A r \in BagToSet(inflight) : r.kind # "loadData"

(* the error state of the component a handler belongs to *)
OwnerError(kind, d, t, s) ==
    CASE OwnerOf(kind) = "dashboard" -> d.error
      [] OwnerOf(kind) = "timeline" -> t.error
      [] OTHER -> s.error

LanguageLoadsInFlight ==
    BagCardinality([r \in {q \in BagToSet(inflight) : q.kind = "loadLanguage"} |-> inflight[r]])

(* C17: the provider's one startup load ends with the locale of the        *)
(* response on success and the default locale on failure, and with the     *)
(* provider's loading flag false for good; while and after it loads, the   *)
(* views below the provider mount and render.                              *)
ProviderInitialised ==
    [][/\ ev'.op = "loadLanguage"
          => /\ providerLoading /\ ~providerLoading'
             /\ ev'.req.status = "ok" => language' = ev'.req.resp.prefs.language
             /\ ev'.req.status = "fail" => language' = DefaultLanguage
       /\ ~providerLoading => ~providerLoading'
       /\ LanguageLoadsInFlight' = IF providerLoading' THEN 1 ELSE 0
       /\ currentPage' \in PageType]_vars

(* the startup load has just succeeded with a locale other than the        *)
(* default, after the Settings view was opened and had loaded its form      *)
ProviderLoadedBehindSettingsReached ==
    /\ ev.op = "loadLanguage" /\ ev.req.status = "ok"
    /\ language # DefaultLanguage /\ ~providerLoading
    /\ currentPage = "settings" /\ ~settingsView.loading

(* C18: a rejected getSettings of the mounted Settings view ends its       *)
(* loading state, sets its error, leaves the form on the built-in default  *)
(* preferences with the save button enabled, and changes nothing of the    *)
(* locale, the stored preferences, the page or the other views.            *)
SettingsLoadFailureNonFatal ==
    [][(ev'.op = "loadSettings" /\ ev'.req.status = "fail" /\ ev'.req.alive)
        => /\ ~settingsView'.loading
           /\ settingsView'.error = "settings.loadFailed"
           /\ settingsView'.settings = SettingsState.settings
           /\ ~(settingsView'.saving \/ settingsView'.isSaved)
           /\ language' = language /\ providerLoading' = providerLoading
           /\ persisted' = persisted /\ currentPage' = currentPage
           /\ dashboard' = dashboard /\ timeline' = timeline]_vars

(* the load of the mounted Settings view has just been rejected while the  *)
(* stored language is not the built-in default                             *)
SettingsLoadRejectedReached ==
    /\ ev.op = "loadSettings" /\ ev.req.status = "fail" /\ ev.req.alive
    /\ persisted.language # SettingsState.settings.language

(* C19: the body of an updateSettings request never carries a built-in     *)
(* default of the client: the language it sends was loaded from the        *)
(* backend or chosen by the user.                                          *)
PayloadPreservesUntouched ==
    ev.op = "save" => settingsView.origin \in {"loaded", "user"}

(* C20: a generation completing in the mounted Dashboard releases          *)
(* generating; on success the summary is the response and, unless a date   *)
(* load is pending, the data panel is shown; on failure the error is the   *)
(* failure message, the summary is unchanged and, unless a date load is    *)
(* pending, the error panel is shown.                                      *)
GenerationCompletes ==
    [][(ev'.op = "handleGenerateSummary" /\ ev'.req.alive)
        => /\ ~dashboard'.generating
           /\ ev'.req.status = "ok"
                 => /\ dashboard'.summary = ev'.req.resp.summary
                    /\ ~dashboard'.loading => DashboardPanel(dashboard') = "data"
           /\ ev'.req.status = "fail"
                 => /\ dashboard'.error = "generate.failed"
                    /\ dashboard'.summary = dashboard.summary
                    /\ ~dashboard'.loading => DashboardPanel(dashboard') = "error"]_vars

(* the generation requests of the mounted Dashboard instance in flight *)
OwnGenerationsInFlight ==
    {r \in BagToSet(inflight) : r.kind = "handleGenerateSummary" /\ r.alive}

Displays(d) ==
    IF currentPage = "dashboard"
    THEN /\ dashboard.stats = [date |-> d, analyzed_records |-> srvAnalyzed[d]]
         /\ dashboard.summary = [date |-> d, ver |-> srvSummary[d]]
         /\ ~dashboard.loading /\ dashboard.error = Null
    ELSE /\ timeline.activities = [date |-> d, count |-> srvAnalyzed[d]]
         /\ ~timeline.loading /\ timeline.error = Null

NoFailureHandled == ~(ev.op \in ResumeOps /\ ev.req.status = "fail")

(* C22: in a view that stays mounted, if the selected date settles on d    *)
(* and from some point on no request fails, the view eventually displays   *)
(* the backend's data for d with loading false and no error, for good.     *)
EventuallyConsistent ==
    \A d \in Dates :
        (<>[](selectedDate = d) /\ <>[]NoFailureHandled) => <>[]Displays(d)

(* a background refresh has just brought the mounted view, on a date other *)
(* than the one it was mounted with, in line with the backend              *)
RefreshedAfterDateChangeReached ==
    /\ ev.op \in FetchKinds /\ ~ev.req.showLoading /\ ev.req.status = "ok"
    /\ selectedDate # Today /\ srvAnalyzed[selectedDate] > 0
    /\ Displays(selectedDate)

(* ---------------------------------------------------------------------- *)
(* Properties of the resolver                                              *)
(* ---------------------------------------------------------------------- *)
(* what a dictionary object defines at a key path: its own properties only *)
RECURSIVE Own(_, _)
Own(value, path) ==
    IF path = <<>> THEN value
    ELSE IF value.type = "object" /\ Head(path) \in DOMAIN value.props
    THEN Own(value.props[Head(path)], Tail(path))
    ELSE Undefined

(* the dictionary of the requested locale in the finished call *)
ActiveDictionary == Loaded(resolver.removed)[resolver.lang]

Resolved == resolver.pc = "done" /\ resolver.lang \in Language

(* C12: for a supported locale and a key with a segment the locale's       *)
(* dictionary does not define, t returns the literal key path.             *)
MissReturnsKeyPath ==
    (Resolved /\ Own(ActiveDictionary, resolver.key).type = "undefined")
        => resolver.ret = "key"

(* C13: for a supported locale, a key whose walk ends on a value that is   *)
(* not a string resolves to the literal key path; t returns the key path   *)
(* or a string, nothing else.                                              *)
TerminalMustBeString ==
    Resolved =>
        /\ Own(ActiveDictionary, resolver.key).type = "object" => resolver.ret = "key"
        /\ resolver.ret = "value" => resolver.value.type = "string"

(* C14: a leaf key that all three shipped dictionaries define resolves to  *)
(* a non-empty string in each of zh, en and ja.                            *)
CommonLeafNonEmpty ==
    (/\ Resolved /\ resolver.removed = NothingRemoved
     /\ \A l \in Language : resolver.key \in LeafPaths(translations[l]))
        => /\ resolver.ret = "value"
           /\ resolver.value.type = "string"
           /\ resolver.value.length > 0

(* C15: as shipped, zh, en and ja define the same set of dotted leaf key   *)
(* paths, in the old-version translations module and in the TypeScript one *)
DictionariesComplete ==
    resolver.removed = NothingRemoved =>
        \A l, m \in Language :
            /\ LeafPaths(Loaded(resolver.removed)[l]) = LeafPaths(Loaded(resolver.removed)[m])
            /\ LeafPaths(translationsTs[l]) = LeafPaths(translationsTs[m])

(* a leaf key of the Chinese dictionary has been resolved to a text of the *)
(* Japanese one                                                            *)
LeafResolvedInJaReached ==
    /\ Resolved /\ resolver.lang = "ja" /\ resolver.removed = NothingRemoved
    /\ resolver.key \in LeafPaths(translations["zh"])
    /\ resolver.ret = "value" /\ resolver.value.type = "string"

(* t over one dictionary object and nothing else *)
RECURSIVE Walk(_, _)
Walk(value, path) ==
    IF path = <<>> THEN [ret |-> "value", value |-> value]
    ELSE LET v == Get(value, Head(path))
         IN  IF v.type = "undefined" THEN [ret |-> "key", value |-> v]
             ELSE Walk(v, Tail(path))

Abs(x) == IF x < 0 THEN 0 - x ELSE x

(* C23: for every non-negative work_hours the Dashboard shows h hours and  *)
(* m minutes with h = floor(work_hours), 0 <= m <= 59 and h*60 + m the     *)
(* nearest whole minute to work_hours; 6.5 shows as 6 hours 30 minutes     *)
WorkHoursDisplay ==
    display.rendered =>
        LET wh == display.stats.work_hours
            h == display.workHours.hours
            m == display.workHours.minutes
        IN  /\ h * 1000 <= wh /\ wh < (h + 1) * 1000
            /\ m \in 0..59
            /\ 2 * Abs((h * 60 + m) * 1000 - wh * 60) <= 1000
            /\ wh = 6500 => (h = 6 /\ m = 30)


(* what the rendered Dashboard shows for its DailyStats *)
Counts == display.stats.category_distribution
Analyzed == display.stats.analyzed_records

(* each displayed percentage is count / analyzed_records * 100 to one     *)
(* decimal: no other tenth is nearer                                       *)
NearestTenth ==
    \A c \in DOMAIN Counts :
        2 * Abs(display.percentage[c] * Analyzed - Counts[c] * 1000) <= Analyzed

(* C24 as stated: each displayed percentage is count/analyzed_records*100  *)
(* to one decimal; when the counts sum to analyzed_records > 0 the         *)
(* displayed percentages sum to 100.0; when they sum to at most            *)
(* analyzed_records every percentage lies in 0..100                        *)
PercentagesSumTo100 ==
    (display.rendered /\ Analyzed > 0) =>
        /\ DOMAIN display.percentage = DOMAIN Counts
        /\ NearestTenth
        /\ Total(Counts) = Analyzed => Total(display.percentage) = 1000
        /\ Total(Counts) <= Analyzed => \A c \in DOMAIN Counts : display.percentage[c] \in 0..1000

(* C24: each displayed percentage is count/analyzed_records*100 to one     *)
(* decimal and lies in 0..100; when the counts sum to analyzed_records     *)
(* the displayed percentages sum to 100.0 up to the rounding of each bar,  *)
(* at most 0.05 per category; 6 and 4 of 10 show as 60.0 and 40.0          *)
PercentagesRounded ==
    (display.rendered /\ Analyzed > 0) =>
        /\ DOMAIN display.percentage = DOMAIN Counts
        /\ NearestTenth
        /\ Total(Counts) = Analyzed =>
               2 * Abs(Total(display.percentage) - 1000) <= Cardinality(DOMAIN Counts)
        /\ Total(Counts) <= Analyzed => \A c \in DOMAIN Counts : display.percentage[c] \in 0..1000
        /\ (Counts = ScenarioDistribution /\ Analyzed = 10) =>
               (display.percentage["coding"] = 600 /\ display.percentage["meeting"] = 400)

ThirdsShownReached ==
    /\ display.rendered
    /\ Analyzed = 3 /\ DOMAIN Counts = Categories /\ \A c \in Categories : Counts[c] = 1
    /\ \A c \in Categories : display.percentage[c] = 333


(* ---------------------------------------------------------------------- *)
(* Properties of the date string                                           *)
(* ---------------------------------------------------------------------- *)
PickerOps == {"setToday", "handleDateInputChange", "changeDate"}

(* C25: whatever the client's timezone, after the user picks a day in the  *)
(* DatePicker (date input, previous/next day, today) the date string the   *)
(* Dashboard and the Timeline send is the local calendar day picked        *)
QueryDateIsLocalDay ==
    picker.op \in PickerOps => toISODate(picker.selectedDate) = picker.picked


(* ---------------------------------------------------------------------- *)
(* Properties of the locale store                                          *)
(* ---------------------------------------------------------------------- *)
(* C26: the active locale changes only in the completion of a settings     *)
(* save and in the provider's startup load; navigation, the Dashboard and  *)
(* its callbacks, the form of the Settings view and its timers leave it    *)
(* as it is                                                                *)
SingleWriter ==
    [][language' # language
         => \/ ev'.op = "handleSave" /\ ev'.setLanguage /\ ev'.req.status = "ok"
            \/ ev'.op = "loadLanguage"]_vars

(* a save dispatched by a Settings view that is gone has just switched the *)
(* locale under the mounted Dashboard                                      *)
LocaleSwitchedUnderDashboardReached ==
    /\ ev.op = "handleSave" /\ ev.setLanguage /\ ~ev.req.alive
    /\ currentPage = "dashboard" /\ language = ev.req.payload.language


(* C27: immediately after a confirmed save whose body carries language L   *)
(* the active locale is L                                                  *)
ConfirmedSaveSetsLocale ==
    (/\ ev.op = "handleSave" /\ ev.req.status = "ok"
     /\ ev.req.payload.language \in Language)
        => language = ev.req.payload.language


(* ---------------------------------------------------------------------- *)
(* Properties of the binding of a data view to the selected date           *)
(* ---------------------------------------------------------------------- *)
DataViews == {"dashboard", "timeline"}

ActiveTimers(tms) == {tm \in tms : tm.alive}

(* C28: a change of the selected date from K1 to K2 on a mounted data view *)
(* cancels the timer of K1, dispatches exactly one foreground fetch for K2 *)
(* with loading=true and registers one timer for K2; every fetch or        *)
(* generation a mounted view dispatches is for the selected date; a        *)
(* mounted data view has exactly one active timer, bound to that date      *)
RebindOnDateChange ==
    [][/\ (ev'.op = "dateChange" /\ currentPage \in DataViews)
            => /\ ev'.req.kind \in FetchKinds /\ OwnerOf(ev'.req.kind) = currentPage
               /\ ev'.req.date = selectedDate' /\ ev'.req.showLoading
               /\ inflight' = Add(inflight, ev'.req)
               /\ ViewLoading(currentPage, dashboard', timeline')
               /\ \A tm \in ActiveTimers(intervals') : tm.date # selectedDate
       /\ (ev'.op \in {"mount", "dateChange", "retry", "interval", "generate"}
           /\ ev'.req.alive /\ OwnerOf(ev'.req.kind) \in DataViews)
            => /\ ev'.req.date = selectedDate'
               /\ OwnerOf(ev'.req.kind) = currentPage'
       /\ currentPage' \in DataViews
            => /\ Cardinality(ActiveTimers(intervals')) = 1
               /\ \A tm \in ActiveTimers(intervals') :
                      tm.view = currentPage' /\ tm.date = selectedDate']_vars

(* after a change of date the timer of the new date has fired *)
ReboundTimerFiredReached ==
    /\ ev.op = "interval" /\ ev.req.alive
    /\ selectedDate # Today /\ ev.req.date = selectedDate


(* the data a fetch handler writes: what the view holds, what a response   *)
(* carries                                                                 *)
DataHeld(kind, d, t) ==
    IF kind = "loadData" THEN <<d.stats, d.summary>> ELSE <<t.activities>>

DataCarried(r) ==
    IF r.kind = "loadData" THEN <<r.resp.stats, r.resp.summary>> ELSE <<r.resp.activities>>

(* C29: results are applied in completion order under a key guard: when a  *)
(* fetch of a mounted view completes successfully, the view holds its      *)
(* result if it was dispatched for the date selected at that time          *)
(* (whatever was dispatched before or after it), and holds what it held    *)
(* before if it was dispatched for another date                            *)
CompletionOrderKeyGuard ==
    [][(ev'.op \in FetchKinds /\ ev'.req.alive /\ ev'.req.status = "ok")
        => DataHeld(ev'.op, dashboard', timeline')
             = IF ev'.req.date = selectedDate'
               THEN DataCarried(ev'.req)
               ELSE DataHeld(ev'.op, dashboard, timeline)]_vars


(* ---------------------------------------------------------------------- *)
(* Properties of the old-version views                                     *)
(* ---------------------------------------------------------------------- *)
(* C30: in the old-version Dashboard and Timeline the 30-second interval   *)
(* callback does not set the loading flag of the view to true              *)
OldRefreshKeepsLoadingDown ==
    [][ev'.op = "interval"
         => (ViewLoading(currentPage, dashboard', timeline')
               => ViewLoading(currentPage, dashboard, timeline))]_vars


(* ---------------------------------------------------------------------- *)
(* Properties of the transport layer                                       *)
(* ---------------------------------------------------------------------- *)
(* C31: request resolves, with the parsed JSON body, only for a response   *)
(* with a 2xx status whose body is a JSON text; for every other status,    *)
(* a network error or a body that does not parse it logs once and rejects; *)
(* a call settles at most once, as a success or as a failure               *)
TransportOutcome ==
    /\ transport.settled <= 1
    /\ transport.result = "pending" <=> transport.settled = 0
    /\ transport.pc = "done" =>
         /\ transport.settled = 1
         /\ transport.result = "resolved"
              <=> /\ transport.outcome \in 200..299
                  /\ transport.body = "json"
         /\ transport.result = "resolved"
              => (transport.value = "parsed" /\ transport.logged = 0)
         /\ transport.result # "resolved"
              => (transport.result = "rejected" /\ transport.logged = 1
                  /\ transport.value # "parsed")

(* a 2xx response whose body was cut off has been rejected *)
TruncatedBodyRejectedReached ==
    /\ transport.pc = "done" /\ transport.outcome = 200 /\ transport.body = "truncated"
    /\ transport.result = "rejected" /\ transport.value = "SyntaxError"


(* C35: the result of a generation that was dispatched for a date other    *)
(* than the one selected when it completes is not applied: the summary     *)
(* the Dashboard holds stays as it was                                     *)
GeneratedSummaryOfSelectedDate ==
    [][(/\ ev'.op = "handleGenerateSummary" /\ ev'.req.alive /\ ev'.req.status = "ok"
        /\ ev'.req.date # selectedDate')
        => dashboard'.summary = dashboard.summary]_vars

(* C36: a completed Dashboard fetch sets stats and summary together, from  *)
(* its own two responses, only when both getStats and getSummary           *)
(* succeeded; when either failed it changes neither and sets the error;    *)
(* stats change in no other step and the summary otherwise only in the     *)
(* completion of a successful generation                                   *)
StatsAndSummaryAtomic ==
    [][/\ (ev'.op = "loadData" /\ ev'.req.alive)
            => IF ev'.req.status = "ok"
               THEN /\ dashboard'.stats = ev'.req.resp.stats
                    /\ dashboard'.summary = ev'.req.resp.summary
                    /\ dashboard'.stats.date = ev'.req.date
                    /\ dashboard'.summary.date = ev'.req.date
               ELSE /\ dashboard'.stats = dashboard.stats
                    /\ dashboard'.summary = dashboard.summary
                    /\ dashboard'.error = "dashboard.loadFailed"
       /\ dashboard'.stats # dashboard.stats
            => (ev'.op = "loadData" /\ ev'.req.status = "ok")
       /\ dashboard'.summary # dashboard.summary
            => (ev'.op \in {"loadData", "handleGenerateSummary"} /\ ev'.req.status = "ok")]_vars

(* a fetch whose getStats had resolved with new figures has just failed on *)
(* its getSummary                                                          *)
HalfFetchedDiscardedReached ==
    /\ ev.op = "loadData" /\ ev.req.alive /\ ev.req.status = "fail"
    /\ ev.req.resp.stats # NoStats /\ ev.req.resp.stats # dashboard.stats
    /\ ev.req.resp.stats.date = selectedDate /\ dashboard.stats.date = selectedDate

(* C34: when the completion of a confirmed save has just written locale L, *)
(* the completion of the provider's startup load, succeeded or failed,     *)
(* leaves the locale at L                                                  *)
NoDesyncFromStartupLoad ==
    [][(/\ ev.op = "handleSave" /\ ev.setLanguage /\ language = ev.req.payload.language
        /\ ev'.op = "loadLanguage")
        => language' = language]_vars

(* ---------------------------------------------------------------------- *)
(* Properties of the busy flags                                            *)
(* ---------------------------------------------------------------------- *)
(* the foreground fetches of the mounted view for the selected date whose  *)
(* handler has not resumed yet                                             *)
ForegroundPending ==
    {r \in BagToSet(inflight) :
        /\ r.kind \in FetchKinds /\ r.alive /\ r.showLoading
        /\ OwnerOf(r.kind) = currentPage /\ r.date = selectedDate}

(* C32: while a foreground fetch of the mounted Dashboard or Timeline for  *)
(* the selected date is in flight, the loading flag of the view is true    *)
LoadingWhileForegroundPending ==
    (currentPage \in DataViews /\ ForegroundPending # {})
        => ViewLoading(currentPage, dashboard, timeline)


(* the number of updateSettings requests of the mounted Settings view in   *)
(* flight                                                                  *)
OwnSaves(reqs) ==
    BagCardinality([r \in {q \in BagToSet(reqs) : q.kind = "handleSave" /\ q.alive}
                       |-> reqs[r]])

(* C37: saving is true exactly while an updateSettings request of the      *)
(* mounted Settings view is in flight; a save is dispatched only when      *)
(* neither saving nor the saved confirmation is on, so at most one such    *)
(* request is in flight; its completion, confirmed or rejected, ends       *)
(* saving                                                                  *)
SaveExclusive ==
    [][/\ OwnSaves(inflight') <= 1
       /\ settingsView'.saving <=> OwnSaves(inflight') = 1
       /\ ev'.op = "save"
            => /\ ~settingsView.saving /\ ~settingsView.isSaved
               /\ settingsView'.saving
       /\ (ev'.op = "handleSave" /\ ev'.req.alive)
            => /\ settingsView.saving /\ ~settingsView'.saving
               /\ ev'.req.status = "ok" => settingsView'.isSaved
               /\ ev'.req.status = "fail" => settingsView'.error = "settings.saveFailed"]_vars

(* a rejected save of the mounted Settings view has just ended: saving is  *)
(* off and the button is enabled again                                     *)
SaveReleasedAfterFailureReached ==
    /\ ev.op = "handleSave" /\ ev.req.alive /\ ev.req.status = "fail"
    /\ currentPage = "settings" /\ OwnSaves(inflight) = 0
    /\ ~settingsView.saving /\ ~settingsView.isSaved

(* the loading flag of the mounted view *)
Loading ==
    CASE currentPage = "dashboard" -> dashboard.loading
      [] currentPage = "timeline" -> timeline.loading
      [] OTHER -> settingsView.loading

(* no foreground fetch is started: the date is not changed and the retry   *)
(* button is not used                                                      *)
NoForegroundStart == ev.op \notin {"dateChange", "retry"}

(* C38: when every request settles and its handler resumes, in a view that *)
(* stays mounted a raised loading, generating or saving flag is lowered    *)
(* again, and once no foreground fetch is started any more loading is      *)
(* lowered for good                                                        *)
BusyFlagsReleased ==
    /\ []<>~Loading
    /\ []<>~dashboard.generating
    /\ []<>~settingsView.saving
    /\ <>[]NoForegroundStart => <>[]~Loading

(* C38 as stated: in a view that stays mounted, once the date stops        *)
(* changing loading is lowered for good, and generating and saving are     *)
(* lowered again whenever they are raised                                  *)
BusyFlagsReleasedOnceDateSettles ==
    /\ []<>~dashboard.generating
    /\ []<>~settingsView.saving
    /\ <>[](ev.op # "dateChange") => <>[]~Loading

(* the generation of the previous date has just ended while the fetch of   *)
(* the new date is still pending                                           *)
GenerationReleasedBehindLoadReached ==
    /\ ev.op = "handleGenerateSummary" /\ ev.req.alive /\ ev.req.date # selectedDate
    /\ ~dashboard.generating /\ dashboard.loading

(* ---------------------------------------------------------------------- *)
(* Properties of the displayed summary                                     *)
(* ---------------------------------------------------------------------- *)
(* C33: while date D stays selected and the Dashboard holds a generated    *)
(* summary of D, the completion of a fetch for D does not put an older     *)
(* (or the empty) summary in its place                                     *)
NoSummaryRegression ==
    [][(/\ ev'.op = "loadData" /\ ev'.req.alive /\ ev'.req.status = "ok"
        /\ ev'.req.date = selectedDate /\ selectedDate' = selectedDate
        /\ dashboard.summary.date = selectedDate /\ dashboard.summary.ver > 0)
        => dashboard'.summary.ver >= dashboard.summary.ver]_vars

====
